---- MODULE Spec2Model ----
(***************************************************************************)
(* Lumen chat server (src/server.js): the room/session coordinator, and    *)
(* the receiving side of room file transfers in the browser client         *)
(* (src/public/app.js).                                                    *)
(*                                                                         *)
(* The server is one Node.js process.  Every socket.io handler runs to     *)
(* completion unless it awaits bcrypt (room:create, room:join,             *)
(* room:joinByPin); an awaiting handler is parked in `pending` and resumed *)
(* by a later step, so other handlers interleave at exactly those points.  *)
(*                                                                         *)
(* Identities (uuidv4 values) and room ids are numbered in the order they  *)
(* are minted / inserted, so the insertion order of the `rooms` Map is the *)
(* numeric order of the room ids.  0 stands for undefined / null.          *)
(* Display names, avatars and timestamps are left out: no handler's        *)
(* control flow reads them.  userSessions is written by user:join and      *)
(* never read, and is left out as well.                                    *)
(***************************************************************************)
EXTENDS Integers, Sequences, FiniteSets, TLC

\* ------------------------------------------------------------------------
\* Program constants (src/server.js)
\* ------------------------------------------------------------------------
MAX_ROOM_MEMBERS == 50
MAX_ROOMS_PER_USER == 10
MAX_TOTAL_USERS == 200
MESSAGE_RATE_LIMIT == 10
FILE_RATE_LIMIT == 5
RATE_WINDOW_MS == 60000
MAX_CHUNKS == 1000
MAX_FILE_SIZE == 50 * 1024 * 1024

\* ------------------------------------------------------------------------
\* Bounds of the model
\* ------------------------------------------------------------------------
\* identities the uuid generator mints in one run
MaxUsers == 3
\* identities minted in a run of the two-connection specifications
MaxFewUsers == 2
\* rooms inserted in one run
MaxRooms == 1
\* handlers suspended at a bcrypt await at the same time
MaxPending == 1
\* room:join handlers suspended together in the join race
MaxRacing == 2
\* the clock stops advancing here
MaxTime == 120000
\* one clock step
TickMs == 60000
\* totalChunks of the file transfers announced
FileChunks == 4
\* file events on the way to the receiving client at the same time
MaxInbox == 1
\* room ids for the run that takes one identity to the room-creation limit
MaxLedRooms == 11
\* identity ids for the run that fills the registry
MaxManyUsers == 201
\* room:message emits the sending client's socket holds at the same time
MaxQueued == 2
\* room ids for the run in which identities depart from rooms
MaxDepartRooms == 2
\* files the sending client sends, one after the other
MaxFiles == 6
\* chunks of one file that the run follows from the sending client on
MaxSentChunks == 2

Sockets == {"s1", "s2", "s3"}
NoSock == "none"
UserIds == 1..MaxUsers
RoomIds == 1..MaxRooms
NoUser == 0
NoPin == 0
NoHash == 0
\* pins a client may type
Pins == {1, 2}
PinInputs == {NoPin} \cup Pins

VARIABLES
    users,              \* users Map: userId -> socketId (NoSock: no entry)
    socketToUser,       \* socketToUser Map: socketId -> userId (NoUser: no entry)
    rooms,              \* keys of the rooms Map (the directory)
    roomObj,            \* the room objects, by id; an object outlives its directory entry
    joined,             \* socket.io adapter: socketId -> the room ids the socket has joined
    closed,             \* sockets whose disconnect has been handled
    nextUser,           \* next identity uuidv4 mints
    nextRoom,           \* next room id inserted
    pending,            \* handlers suspended at an await
    userMessageCounts,  \* userId -> [count, resetTime] (count 0: no entry)
    userFileCounts,     \* userId -> [count, resetTime] (count 0: no entry)
    now,                \* Date.now()
    out,                \* the emit calls of the last step, in order
    last,               \* the inbound event the last step handled
    msgAllowed,         \* history: message checks allowed since the user's window began
    inbox,              \* file events the server has sent to the receiving client, unhandled
    currentChat,        \* client: the room whose chat is open (NoChat: none)
    fileTransfers,      \* receiving client: the transfer it tracks (NoTransfer: none)
    notice,             \* receiving client: the notification its last handler showed
    announced,          \* history: totalChunks of the last room:file:start sent to the client
    clientSocket,       \* sending client: its connected socket (NoSock: disconnected)
    clientUserId,       \* sending client: currentUser.userId
    offlineMessages,    \* sending client: localStorage 'offlineMessages'
    sendBuffer,         \* sending client: room:message emits its socket has not delivered yet
    departed,           \* history: <<identity, room>> for who left or was kicked and is not back
    sendingFile,        \* sending client: the sendRoomFile call in progress (NoSending: none)
    refused             \* history: ids of the files whose room:file:start was answered with an error

\* the message-sending state of the client application (src/public/app.js)
queueVars == <<clientSocket, clientUserId, offlineMessages, sendBuffer>>

\* the file-sending state of the client application and the history of its files
sendVars == <<sendingFile, refused>>

\* the state of the client application (src/public/app.js)
clientVars == <<inbox, currentChat, fileTransfers, notice, announced, queueVars>>

\* the state of the server, the client and the observers that the steps of the
\* server leave alone unless a run keeps the history of departures
restVars == <<clientVars, departed, sendVars>>

vars == <<users, socketToUser, rooms, roomObj, joined, closed, nextUser, nextRoom,
          pending, userMessageCounts, userFileCounts, now, out, last, msgAllowed,
          inbox, currentChat, fileTransfers, notice, announced,
          clientSocket, clientUserId, offlineMessages, sendBuffer, departed,
          sendingFile, refused>>

roomVars == <<rooms, roomObj>>
userVars == <<users, socketToUser, nextUser>>
rateVars == <<userMessageCounts, userFileCounts, msgAllowed>>

\* ------------------------------------------------------------------------
\* Helpers
\* ------------------------------------------------------------------------
SeqToSet(q) == {q[i] : i \in 1..Len(q)}

\* Set.prototype.has / add / delete on an insertion-ordered Set
Has(q, u) == u \in SeqToSet(q)
SetAdd(q, u) == IF Has(q, u) THEN q ELSE Append(q, u)
SetDelete(q, u) == SelectSeq(q, LAMBDA x : x # u)

NoRoom == [isPrivate |-> FALSE, pinHash |-> NoHash, leadUserId |-> NoUser,
           members |-> <<>>, maxMembers |-> 0]
NoCount == [count |-> 0, resetTime |-> 0]
\* this.currentChat = null; this.fileTransfers.get(fileId) === undefined
NoChat == 0
NoTransfer == [tracked |-> FALSE, totalChunks |-> 0, chunks |-> <<>>]
\* no sendRoomFile call is running
NoSending == [fileId |-> 0, roomId |-> 0, totalChunks |-> 0, sentChunks |-> 0,
              running |-> FALSE]
NoEvent == [op |-> "init", sock |-> NoSock, user |-> NoUser, room |-> 0,
            target |-> NoUser, prior |-> 0, size |-> 0, chunks |-> 0]

Live == Sockets \ closed

\* a comparison that accepts every pin against a stored digest
bcryptCompareAny(pin, hash) == hash # NoHash
\* bcrypt.hash(pin, 10) and bcrypt.compare(pin, hash)
bcryptHash(pin) == 100 + pin
bcryptCompare(pin, hash) == bcryptHash(pin) = hash

\* users.has(userId), for a userId read from socketToUser (possibly undefined)
UserKnown(u) == u # NoUser /\ users[u] # NoSock
UsersSize == Cardinality({u \in DOMAIN users : users[u] # NoSock})

\* serializeRoom(room): the snapshot of a room object, taken against a users Map
serializeRoomLeaky(r, obj, us) ==
    [id |-> r, isPrivate |-> obj.isPrivate, pinHash |-> obj.pinHash,
     leadUserId |-> obj.leadUserId, maxMembers |-> obj.maxMembers,
     memberCount |-> Len(obj.members),
     members |-> SelectSeq(obj.members, LAMBDA u : us[u] # NoSock)]
serializeRoom(r, obj, us) ==
    [id |-> r, isPrivate |-> obj.isPrivate,
     leadUserId |-> obj.leadUserId, maxMembers |-> obj.maxMembers,
     memberCount |-> Len(obj.members),
     members |-> SelectSeq(obj.members, LAMBDA u : us[u] # NoSock)]

\* one emit call: event name, the live sockets it reaches, and its payload
Emit(name, to, r, msg, snaps, from) ==
    [ev |-> name, to |-> to, room |-> r, msg |-> msg, snaps |-> snaps, from |-> from]

\* socket.emit(name, ...) on socket s; a closed socket receives nothing
ToSocket(s, cl) == {s} \ cl
\* socket.to(roomId): every live socket in the adapter room except s
ToRoomExcept(s, r, jn, cl) == {t \in Sockets \ cl : r \in jn[t] /\ t # s}
\* io.to(roomId): every live socket in the adapter room
ToRoom(r, jn, cl) == {t \in Sockets \ cl : r \in jn[t]}

Error(s, msg) == Emit("error", ToSocket(s, closed), 0, msg, <<>>, NoUser)

\* the ids of a set of naturals in increasing order (Map iteration order)
RECURSIVE Sorted(_)
Sorted(S) ==
    IF S = {} THEN <<>>
    ELSE LET m == CHOOSE x \in S : \A y \in S : x <= y
         IN <<m>> \o Sorted(S \ {m})

\* broadcastRoomList(): io.emit('room:list', every room of the directory)
broadcastRoomList(dir, objs, us, cl) ==
    LET ids == Sorted(dir)
    IN Emit("room:list", Sockets \ cl, 0, "",
            [i \in 1..Len(ids) |-> serializeRoom(ids[i], objs[ids[i]], us)], NoUser)

\* broadcastUserList(): io.emit('user:list', every registered user)
broadcastUserList(us, cl) ==
    LET ids == SelectSeq([u \in DOMAIN us |-> u], LAMBDA u : us[u] # NoSock)
    IN Emit("user:list", Sockets \ cl, 0, "", [i \in 1..Len(ids) |-> [id |-> ids[i]]], NoUser)

\* The state of the server after the module is loaded (lines 25-29: empty
\* Maps), for a universe of identity ids and room ids that the run may mint
InitServer(userIds, roomIds) ==
    /\ users = [u \in userIds |-> NoSock]
    /\ socketToUser = [s \in Sockets |-> NoUser]
    /\ rooms = {}
    /\ roomObj = [r \in roomIds |-> NoRoom]
    /\ joined = [s \in Sockets |-> {}]
    /\ closed = {}
    /\ nextUser = 1
    /\ nextRoom = 1
    /\ pending = {}
    /\ userMessageCounts = [u \in userIds |-> NoCount]
    /\ userFileCounts = [u \in userIds |-> NoCount]
    /\ now = 0
    /\ out = <<>>
    /\ last = NoEvent
    /\ msgAllowed = [u \in userIds |-> 0]

\* The state of the client application after its constructor, apart from its
\* Map of file transfers, and the empty histories
InitClient ==
    /\ inbox = <<>>
    /\ currentChat = NoChat
    /\ notice = ""
    /\ announced = 0
    /\ departed = {}
    /\ clientSocket = NoSock
    /\ clientUserId = NoUser
    /\ offlineMessages = <<>>
    /\ sendBuffer = <<>>
    /\ sendingFile = NoSending
    /\ refused = {}

\* The state after the server module is loaded and the client is constructed;
\* of the client's Map of file transfers the one transfer that a run follows
InitWith(userIds, roomIds) ==
    /\ InitServer(userIds, roomIds)
    /\ InitClient
    /\ fileTransfers = NoTransfer

Init == InitWith(UserIds, RoomIds)

\* ------------------------------------------------------------------------
\* user:join
\* ------------------------------------------------------------------------
\* line 57 with > for >=: one registration too many is admitted
ServerAtCapacityOffByOne == UsersSize > MAX_TOTAL_USERS
\* line 57: users.size >= MAX_TOTAL_USERS
ServerAtCapacity == UsersSize >= MAX_TOTAL_USERS

UserJoin(s, userId) ==
    /\ s \in Live
    /\ last' = [NoEvent EXCEPT !.op = "user:join", !.sock = s, !.user = userId]
    /\ IF ServerAtCapacity
       THEN /\ out' = <<Error(s, "Server is at capacity. Please try again later.")>>
            /\ UNCHANGED userVars
       ELSE LET mint == userId = NoUser \/ userId \notin DOMAIN users \/ users[userId] = NoSock
                finalUserId == IF mint THEN nextUser ELSE userId
            IN /\ mint => nextUser \in DOMAIN users
               /\ users' = [users EXCEPT ![finalUserId] = s]
               /\ socketToUser' = [socketToUser EXCEPT ![s] = finalUserId]
               /\ nextUser' = IF mint THEN nextUser + 1 ELSE nextUser
               /\ out' = <<Emit("user:joined", ToSocket(s, closed), 0, "", <<>>, finalUserId),
                           broadcastUserList(users', closed)>>
    /\ UNCHANGED <<roomVars, joined, closed, nextRoom, pending, rateVars, now>>

\* ------------------------------------------------------------------------
\* room:create
\* ------------------------------------------------------------------------
NoPending == [kind |-> "none", sock |-> NoSock, user |-> NoUser, pin |-> NoPin,
              room |-> 0, isPrivate |-> FALSE, maxMembers |-> 0]
PendingCreates == {p \in pending : p.kind = "create"}

\* Math.min(maxMembers || MAX_ROOM_MEMBERS, MAX_ROOM_MEMBERS)
ClampMaxMembers(maxMembers) ==
    LET m == IF maxMembers = 0 THEN MAX_ROOM_MEMBERS ELSE maxMembers
    IN IF m < MAX_ROOM_MEMBERS THEN m ELSE MAX_ROOM_MEMBERS

\* socket.join(roomId)
SocketJoin(jn, s, r) == IF s \in closed THEN jn ELSE [jn EXCEPT ![s] = @ \cup {r}]

\* A room object that is neither in the directory nor held by a suspended handler
\* is garbage, and so is a socket's place in that room's adapter room: room ids
\* are never reused, so no handler reaches either again.
Referenced(dir, pend) == dir \cup {p.room : p \in pend}
Collect(objs, dir, pend) ==
    [r \in DOMAIN objs |-> IF r \in Referenced(dir, pend) THEN objs[r] ELSE NoRoom]
Forget(jn, dir, pend) == [s \in Sockets |-> jn[s] \cap Referenced(dir, pend)]

\* lines 148-165: build the room, insert it, answer and broadcast
CreateFinish(s, userId, isPrivate, pinHash, maxMembers) ==
    LET r == nextRoom
        obj == [isPrivate |-> isPrivate, pinHash |-> pinHash, leadUserId |-> userId,
                members |-> <<userId>>, maxMembers |-> ClampMaxMembers(maxMembers)]
    IN /\ rooms' = rooms \cup {r}
       /\ roomObj' = [roomObj EXCEPT ![r] = obj]
       /\ nextRoom' = nextRoom + 1
       /\ joined' = SocketJoin(joined, s, r)
       /\ out' = <<Emit("room:created", ToSocket(s, closed), r, "",
                         <<serializeRoom(r, obj, users)>>, NoUser),
                    broadcastRoomList(rooms', roomObj', users, closed)>>
                  \o (IF users[userId] = NoSock
                      \* users.get(userId).name throws at line 165; caught at line 166
                      THEN <<Error(s, "Failed to create room")>>
                      ELSE <<>>)

RoomCreate(s, isPrivate, pin, maxMembers) ==
    LET userId == socketToUser[s]
        userRooms == {r \in rooms : roomObj[r].leadUserId = userId}
    IN /\ s \in Live
       /\ nextRoom + Cardinality(PendingCreates) \in DOMAIN roomObj
       /\ last' = [NoEvent EXCEPT !.op = "room:create", !.sock = s, !.user = userId]
       /\ IF ~UserKnown(userId)
          THEN /\ out' = <<Error(s, "User not found")>>
               /\ UNCHANGED <<roomVars, joined, nextRoom, pending>>
          ELSE IF Cardinality(userRooms) >= MAX_ROOMS_PER_USER
          THEN /\ out' = <<Error(s, "You can only create up to 10 rooms")>>
               /\ UNCHANGED <<roomVars, joined, nextRoom, pending>>
          ELSE IF isPrivate /\ pin # NoPin
          THEN \* await bcrypt.hash(pin, 10)
               LET p == [NoPending EXCEPT !.kind = "create", !.sock = s, !.user = userId,
                                          !.pin = pin, !.isPrivate = isPrivate,
                                          !.maxMembers = maxMembers]
               IN /\ p \notin pending
                  /\ pending' = pending \cup {p}
                  /\ out' = <<>>
                  /\ UNCHANGED <<roomVars, joined, nextRoom>>
          ELSE /\ CreateFinish(s, userId, isPrivate, NoHash, maxMembers)
               /\ UNCHANGED pending
       /\ UNCHANGED <<userVars, closed, rateVars, now>>

\* room:create after the await of line 145
RoomCreateResume(p) ==
    /\ p \in pending
    /\ p.kind = "create"
    /\ last' = [NoEvent EXCEPT !.op = "room:create/resume", !.sock = p.sock,
                               !.user = p.user]
    /\ pending' = pending \ {p}
    /\ CreateFinish(p.sock, p.user, p.isPrivate, bcryptHash(p.pin), p.maxMembers)
    /\ UNCHANGED <<userVars, closed, rateVars, now>>

\* ------------------------------------------------------------------------
\* room:join
\* ------------------------------------------------------------------------
\* line 188, off by one: a room at capacity still admits
RoomIsFullOffByOne(obj) == Len(obj.members) > obj.maxMembers
\* line 188: room.members.size >= room.maxMembers
RoomIsFull(obj) == Len(obj.members) >= obj.maxMembers

\* lines 207-220: add the member, answer the joiner, update the others
JoinFinish(s, userId, r, pend) ==
    LET obj == [roomObj[r] EXCEPT !.members = SetAdd(@, userId)]
        snap == serializeRoom(r, obj, users)
        jn == SocketJoin(joined, s, r)
    IN /\ roomObj' = Collect([roomObj EXCEPT ![r] = obj], rooms, pend)
       /\ joined' = Forget(jn, rooms, pend)
       /\ out' = <<Emit("room:joined", ToSocket(s, closed), r, "", <<snap>>, NoUser),
                   Emit("room:update", ToRoomExcept(s, r, jn, closed), r, "",
                        <<snap>>, NoUser)>>
                 \o (IF users[userId] = NoSock
                     \* users.get(userId).name throws at line 220; caught at line 221
                     THEN <<Error(s, "Failed to join room")>>
                     ELSE <<>>)
       /\ UNCHANGED rooms

RoomJoin(s, roomId, pin) ==
    LET userId == socketToUser[s]
    IN /\ s \in Live
       /\ last' = [NoEvent EXCEPT !.op = "room:join", !.sock = s, !.user = userId,
                                  !.room = roomId]
       /\ IF ~UserKnown(userId)
          THEN /\ out' = <<Error(s, "User not found")>>
               /\ UNCHANGED <<roomVars, joined, pending>>
          ELSE IF roomId \notin rooms
          THEN /\ out' = <<Error(s, "Room not found")>>
               /\ UNCHANGED <<roomVars, joined, pending>>
          ELSE IF RoomIsFull(roomObj[roomId])
          THEN /\ out' = <<Error(s, "Room is full")>>
               /\ UNCHANGED <<roomVars, joined, pending>>
          ELSE IF Has(roomObj[roomId].members, userId)
          THEN /\ out' = <<Error(s, "You are already in this room")>>
               /\ UNCHANGED <<roomVars, joined, pending>>
          ELSE IF roomObj[roomId].isPrivate /\ roomObj[roomId].pinHash # NoHash
          THEN IF pin = NoPin
               THEN /\ out' = <<Error(s, "Invalid PIN")>>
                    /\ UNCHANGED <<roomVars, joined, pending>>
               ELSE \* await bcrypt.compare(pin, room.pinHash)
                    LET p == [NoPending EXCEPT !.kind = "join", !.sock = s,
                                               !.user = userId, !.pin = pin,
                                               !.room = roomId]
                    IN /\ p \notin pending
                       /\ pending' = pending \cup {p}
                       /\ out' = <<>>
                       /\ UNCHANGED <<roomVars, joined>>
          ELSE /\ JoinFinish(s, userId, roomId, pending)
               /\ UNCHANGED pending
       /\ UNCHANGED <<userVars, closed, nextRoom, rateVars, now>>

\* room:join after the await of line 201
RoomJoinResume(p) ==
    /\ p \in pending
    /\ p.kind = "join"
    /\ last' = [NoEvent EXCEPT !.op = "room:join/resume", !.sock = p.sock,
                               !.user = p.user, !.room = p.room]
    /\ pending' = pending \ {p}
    /\ IF ~bcryptCompare(p.pin, roomObj[p.room].pinHash)
       THEN /\ out' = <<Error(p.sock, "Invalid PIN")>>
            /\ roomObj' = Collect(roomObj, rooms, pending \ {p})
            /\ joined' = Forget(joined, rooms, pending \ {p})
            /\ UNCHANGED rooms
       ELSE JoinFinish(p.sock, p.user, p.room, pending \ {p})
    /\ UNCHANGED <<userVars, closed, nextRoom, rateVars, now>>

\* ------------------------------------------------------------------------
\* room:joinByPin
\* ------------------------------------------------------------------------
\* the loop of line 242: the next room, in Map order from position `from`, that
\* reaches the compare of line 244 (0: the iteration is over)
NextPinRoom(from) ==
    LET c == {r \in rooms : r >= from /\ roomObj[r].isPrivate
                                      /\ roomObj[r].pinHash # NoHash}
    IN IF c = {} THEN 0 ELSE CHOOSE r \in c : \A q \in c : r <= q

RoomJoinByPin(s, pin) ==
    LET userId == socketToUser[s]
        first == NextPinRoom(1)
    IN /\ s \in Live
       /\ last' = [NoEvent EXCEPT !.op = "room:joinByPin", !.sock = s, !.user = userId]
       /\ IF ~UserKnown(userId)
          THEN /\ out' = <<Error(s, "User not found")>>
               /\ UNCHANGED pending
          ELSE IF pin = NoPin
          THEN /\ out' = <<Error(s, "PIN is required")>>
               /\ UNCHANGED pending
          ELSE IF first = 0
          THEN /\ out' = <<Error(s, "Invalid PIN or room not found")>>
               /\ UNCHANGED pending
          ELSE \* await bcrypt.compare(pin, room.pinHash) on the first candidate
               LET p == [NoPending EXCEPT !.kind = "joinByPin", !.sock = s,
                                          !.user = userId, !.pin = pin, !.room = first]
               IN /\ p \notin pending
                  /\ pending' = pending \cup {p}
                  /\ out' = <<>>
       /\ UNCHANGED <<userVars, roomVars, joined, closed, nextRoom, rateVars, now>>

\* room:joinByPin after one await of line 244
RoomJoinByPinResume(p) ==
    /\ p \in pending
    /\ p.kind = "joinByPin"
    /\ last' = [NoEvent EXCEPT !.op = "room:joinByPin/resume", !.sock = p.sock,
                               !.user = p.user, !.room = p.room]
    /\ IF bcryptCompare(p.pin, roomObj[p.room].pinHash)
       THEN \* lines 257-262, on the room object the loop holds
            LET r == p.room
                obj == [roomObj[r] EXCEPT !.members = SetAdd(@, p.user)]
                snap == serializeRoom(r, obj, users)
                objs == [roomObj EXCEPT ![r] = obj]
                jn == SocketJoin(joined, p.sock, r)
            IN /\ pending' = pending \ {p}
               /\ roomObj' = Collect(objs, rooms, pending \ {p})
               /\ joined' = Forget(jn, rooms, pending \ {p})
               /\ out' = <<Emit("room:joined", ToSocket(p.sock, closed), r, "",
                                <<snap>>, NoUser),
                           Emit("room:update", ToRoomExcept(p.sock, r, jn, closed),
                                r, "", <<snap>>, NoUser),
                           broadcastRoomList(rooms, objs, users, closed)>>
               /\ UNCHANGED rooms
       ELSE LET next == NextPinRoom(p.room + 1)
                q == [p EXCEPT !.room = next]
            IN IF next = 0
               THEN /\ pending' = pending \ {p}
                    /\ out' = <<Error(p.sock, "Invalid PIN or room not found")>>
                    /\ roomObj' = Collect(roomObj, rooms, pending \ {p})
                    /\ joined' = Forget(joined, rooms, pending \ {p})
                    /\ UNCHANGED rooms
               ELSE /\ q \notin pending
                    /\ pending' = (pending \ {p}) \cup {q}
                    /\ out' = <<>>
                    /\ roomObj' = Collect(roomObj, rooms, pending \ {p})
                    /\ joined' = Forget(joined, rooms, pending \ {p})
                    /\ UNCHANGED rooms
    /\ UNCHANGED <<userVars, closed, nextRoom, rateVars, now>>

\* ------------------------------------------------------------------------
\* room:kick
\* ------------------------------------------------------------------------
\* line 274 with a membership test in place of the leader test
KickAuthorizedAnyMember(roomId, userId) ==
    roomId \in rooms /\ Has(roomObj[roomId].members, userId)
\* line 274: the sender is the leader of a room of the directory
KickAuthorized(roomId, userId) ==
    roomId \in rooms /\ roomObj[roomId].leadUserId = userId

RoomKick(s, roomId, targetUserId) ==
    LET userId == socketToUser[s]
    IN /\ s \in Live
       /\ last' = [NoEvent EXCEPT !.op = "room:kick", !.sock = s, !.user = userId,
                                  !.room = roomId, !.target = targetUserId]
       /\ IF ~KickAuthorized(roomId, userId)
          THEN /\ out' = <<Error(s, "Unauthorized")>>
               /\ UNCHANGED <<roomVars, joined>>
          ELSE IF Has(roomObj[roomId].members, targetUserId)
          THEN LET obj == [roomObj[roomId] EXCEPT !.members = SetDelete(@, targetUserId)]
                   tsock == users[targetUserId]
                   \* io.to(targetUser.socketId).socketsLeave(roomId)
                   jn == IF tsock = NoSock THEN joined
                         ELSE [joined EXCEPT ![tsock] = @ \ {roomId}]
               IN /\ roomObj' = [roomObj EXCEPT ![roomId] = obj]
                  /\ joined' = jn
                  /\ out' = (IF tsock = NoSock THEN <<>>
                             ELSE <<Emit("room:kicked", ToSocket(tsock, closed), roomId,
                                         "", <<>>, NoUser)>>)
                            \o <<Emit("room:update", ToRoomExcept(s, roomId, jn, closed),
                                      roomId, "", <<serializeRoom(roomId, obj, users)>>,
                                      NoUser)>>
                  /\ UNCHANGED rooms
          ELSE /\ out' = <<>>
               /\ UNCHANGED <<roomVars, joined>>
       /\ UNCHANGED <<userVars, closed, nextRoom, pending, rateVars, now>>

\* ------------------------------------------------------------------------
\* room:leave
\* ------------------------------------------------------------------------
\* the member added last instead of the one added first
NextLeadLast(m) == m[Len(m)]
\* room.members.values().next().value: the first member in insertion order
NextLead(m) == m[1]

\* line 319 without the membership test
LeaveAppliesAnyRoom(roomId, userId) == roomId \in rooms
\* line 319: room && room.members.has(userId)
LeaveApplies(roomId, userId) ==
    roomId \in rooms /\ Has(roomObj[roomId].members, userId)

RoomLeave(s, roomId) ==
    LET userId == socketToUser[s]
    IN /\ s \in Live
       /\ last' = [NoEvent EXCEPT !.op = "room:leave", !.sock = s, !.user = userId,
                                  !.room = roomId,
                                  !.prior = IF LeaveApplies(roomId, userId)
                                            THEN roomObj[roomId].leadUserId
                                            ELSE 0]
       /\ IF LeaveApplies(roomId, userId)
          THEN LET m == SetDelete(roomObj[roomId].members, userId)
                   obj == [roomObj[roomId] EXCEPT
                             !.members = m,
                             !.leadUserId = IF m # <<>> /\ @ = userId
                                            THEN NextLead(m) ELSE @]
                   \* socket.leave(roomId)
                   jn == [joined EXCEPT ![s] = @ \ {roomId}]
                   objs == [roomObj EXCEPT ![roomId] = obj]
               IN /\ rooms' = IF m = <<>> THEN rooms \ {roomId} ELSE rooms
                  /\ roomObj' = Collect(objs, rooms', pending)
                  /\ joined' = Forget(jn, rooms', pending)
                  /\ out' = <<Emit("room:left", ToSocket(s, closed), roomId, "", <<>>,
                                   NoUser),
                              Emit("room:update", ToRoomExcept(s, roomId, jn, closed),
                                   roomId, "", <<serializeRoom(roomId, obj, users)>>,
                                   NoUser),
                              broadcastRoomList(rooms', objs, users, closed)>>
          ELSE /\ out' = <<>>
               /\ UNCHANGED <<roomVars, joined>>
       /\ UNCHANGED <<userVars, closed, nextRoom, pending, rateVars, now>>

\* ------------------------------------------------------------------------
\* disconnect
\* ------------------------------------------------------------------------
\* the removal without lines 621-624: the leader is never replaced
RemoveOnDisconnectKeepLeader(obj, userId) ==
    [obj EXCEPT !.members = SetDelete(obj.members, userId)]
\* lines 615-629 for one room object that holds userId
RemoveOnDisconnect(obj, userId) ==
    LET m == SetDelete(obj.members, userId)
    IN [obj EXCEPT !.members = m,
                   !.leadUserId = IF m # <<>> /\ @ = userId THEN NextLead(m) ELSE @]

\* line 631 left out: the identity stays in users
UnregisterNever(us, userId) == us
\* users.delete(userId)
Unregister(us, userId) == [us EXCEPT ![userId] = NoSock]

Disconnect(s) ==
    LET userId == socketToUser[s]
        \* socket.io takes the socket out of every adapter room before the handler runs
        jn == [joined EXCEPT ![s] = {}]
        cl == closed \cup {s}
    IN /\ s \in Live
       /\ last' = [NoEvent EXCEPT !.op = "disconnect", !.sock = s, !.user = userId]
       /\ closed' = cl
       /\ IF userId = NoUser
          THEN /\ out' = <<>>
               /\ joined' = jn
               /\ UNCHANGED <<roomVars, users, socketToUser>>
          ELSE LET affected == {r \in rooms : Has(roomObj[r].members, userId)}
                   objs == [r \in DOMAIN roomObj |->
                              IF r \in affected
                              THEN RemoveOnDisconnect(roomObj[r], userId)
                              ELSE roomObj[r]]
                   emptied == {r \in affected : objs[r].members = <<>>}
                   upd == Sorted(affected \ emptied)
               IN /\ rooms' = rooms \ emptied
                  /\ roomObj' = Collect(objs, rooms', pending)
                  /\ joined' = Forget(jn, rooms', pending)
                  /\ users' = Unregister(users, userId)
                  /\ socketToUser' = [socketToUser EXCEPT ![s] = NoUser]
                  /\ out' = [i \in 1..Len(upd) |->
                               Emit("room:update", ToRoomExcept(s, upd[i], jn, cl), upd[i],
                                    "", <<serializeRoom(upd[i], objs[upd[i]], users)>>,
                                    NoUser)]
                            \o <<broadcastUserList(users', cl),
                                 broadcastRoomList(rooms', objs, users', cl)>>
       /\ UNCHANGED <<nextUser, nextRoom, pending, rateVars, now>>

\* ------------------------------------------------------------------------
\* Rate limiting
\* ------------------------------------------------------------------------
\* line 669 with > for >=: one check too many is allowed
checkRateLimitOffByOne(counts, userId, limit, t) ==
    LET userCount == counts[userId]
    IN IF userCount.count = 0 \/ t > userCount.resetTime
       THEN [allowed |-> TRUE,
             counts |-> [counts EXCEPT ![userId] =
                            [count |-> 1, resetTime |-> t + RATE_WINDOW_MS]]]
       ELSE IF userCount.count > limit
       THEN [allowed |-> FALSE, counts |-> counts]
       ELSE [allowed |-> TRUE,
             counts |-> [counts EXCEPT ![userId].count = @ + 1]]
\* the ceiling tested before the window's expiry: an exhausted window never reopens
checkRateLimitNoReset(counts, userId, limit, t) ==
    LET userCount == counts[userId]
    IN IF userCount.count >= limit
       THEN [allowed |-> FALSE, counts |-> counts]
       ELSE IF userCount.count = 0 \/ t > userCount.resetTime
       THEN [allowed |-> TRUE,
             counts |-> [counts EXCEPT ![userId] =
                            [count |-> 1, resetTime |-> t + RATE_WINDOW_MS]]]
       ELSE [allowed |-> TRUE,
             counts |-> [counts EXCEPT ![userId].count = @ + 1]]
\* one window for everybody: the check writes the caller's window into every
\* entry of the Map
checkRateLimitShared(counts, userId, limit, t) ==
    LET userCount == counts[userId]
        all(w) == [u \in DOMAIN counts |-> w]
    IN IF userCount.count = 0 \/ t > userCount.resetTime
       THEN [allowed |-> TRUE,
             counts |-> all([count |-> 1, resetTime |-> t + RATE_WINDOW_MS])]
       ELSE IF userCount.count >= limit
       THEN [allowed |-> FALSE, counts |-> counts]
       ELSE [allowed |-> TRUE,
             counts |-> all([userCount EXCEPT !.count = @ + 1])]
\* checkRateLimit(userId, type) on the Map of its type, at time t:
\* the answer and the Map afterwards
checkRateLimit(counts, userId, limit, t) ==
    LET userCount == counts[userId]
    IN IF userCount.count = 0 \/ t > userCount.resetTime
       THEN [allowed |-> TRUE,
             counts |-> [counts EXCEPT ![userId] =
                            [count |-> 1, resetTime |-> t + RATE_WINDOW_MS]]]
       ELSE IF userCount.count >= limit
       THEN [allowed |-> FALSE, counts |-> counts]
       ELSE [allowed |-> TRUE,
             counts |-> [counts EXCEPT ![userId].count = @ + 1]]

\* the count of a window that has run out when its owner is checked again
\* (0: no window, or one still running)
Expired(counts, userId, t) ==
    IF counts[userId].count # 0 /\ t > counts[userId].resetTime
    THEN counts[userId].count ELSE 0

\* the clock advances
Tick ==
    /\ now + TickMs <= MaxTime
    /\ now' = now + TickMs
    /\ last' = [NoEvent EXCEPT !.op = "tick"]
    /\ out' = <<>>
    /\ UNCHANGED <<userVars, roomVars, joined, closed, nextRoom, pending, rateVars>>

\* ------------------------------------------------------------------------
\* Room-scoped events
\* ------------------------------------------------------------------------
\* the sender tested for being registered, not for being a member of the room
RoomAuthorizedAnyone(roomId, userId) == roomId \in rooms /\ userId # NoUser
\* lines 345, 380, 392, 407, 422, 437, 489, 516: room && room.members.has(userId)
RoomAuthorized(roomId, userId) ==
    roomId \in rooms /\ Has(roomObj[roomId].members, userId)

\* room.members.forEach(... io.to(member.socketId) ...): the sockets of the members
\* that are registered, except the sender's socket
MemberSockets(s, roomId) ==
    {users[m] : m \in SeqToSet(roomObj[roomId].members)} \ ({NoSock, s} \cup closed)

RoomMessage(s, roomId) ==
    LET userId == socketToUser[s]
        res == checkRateLimit(userMessageCounts, userId, MESSAGE_RATE_LIMIT, now)
        restarted == res.counts[userId].resetTime # userMessageCounts[userId].resetTime
                     \/ userMessageCounts[userId].count = 0
    IN /\ s \in Live
       /\ last' = [NoEvent EXCEPT !.op = "room:message", !.sock = s, !.user = userId,
                                  !.room = roomId,
                                  !.prior = IF RoomAuthorized(roomId, userId)
                                            THEN Expired(userMessageCounts, userId, now)
                                            ELSE 0]
       /\ IF ~RoomAuthorized(roomId, userId)
          THEN /\ out' = <<Error(s, "Not authorized to send messages in this room")>>
               /\ UNCHANGED <<userMessageCounts, msgAllowed>>
          ELSE IF ~res.allowed
          THEN /\ out' = <<Error(s, "Message rate limit exceeded. Please slow down.")>>
               /\ UNCHANGED <<userMessageCounts, msgAllowed>>
          ELSE /\ userMessageCounts' = res.counts
               /\ msgAllowed' = [msgAllowed EXCEPT ![userId] = IF restarted THEN 1 ELSE @ + 1]
               /\ out' = <<Emit("room:message", MemberSockets(s, roomId), roomId, "", <<>>,
                                userId)>>
       /\ UNCHANGED <<userVars, roomVars, joined, closed, nextRoom, pending,
                      userFileCounts, now>>

RoomTyping(s, roomId) ==
    LET userId == socketToUser[s]
    IN /\ s \in Live
       /\ last' = [NoEvent EXCEPT !.op = "room:typing", !.sock = s, !.user = userId,
                                  !.room = roomId]
       /\ IF ~RoomAuthorized(roomId, userId)
          THEN out' = <<>>
          ELSE out' = <<Emit("room:typing", ToRoomExcept(s, roomId, joined, closed), roomId,
                             "", <<>>, userId)>>
       /\ UNCHANGED <<userVars, roomVars, joined, closed, nextRoom, pending, rateVars, now>>

RoomMessageEdit(s, roomId) ==
    LET userId == socketToUser[s]
    IN /\ s \in Live
       /\ last' = [NoEvent EXCEPT !.op = "room:message-edit", !.sock = s, !.user = userId,
                                  !.room = roomId]
       /\ IF ~RoomAuthorized(roomId, userId)
          THEN out' = <<Error(s, "Not authorized to edit in this room")>>
          ELSE out' = <<Emit("room:message-edit", ToRoomExcept(s, roomId, joined, closed),
                             roomId, "", <<>>, userId)>>
       /\ UNCHANGED <<userVars, roomVars, joined, closed, nextRoom, pending, rateVars, now>>

RoomMessageDelete(s, roomId) ==
    LET userId == socketToUser[s]
    IN /\ s \in Live
       /\ last' = [NoEvent EXCEPT !.op = "room:message-delete", !.sock = s,
                                  !.user = userId, !.room = roomId]
       /\ IF ~RoomAuthorized(roomId, userId)
          THEN out' = <<Error(s, "Not authorized to delete in this room")>>
          ELSE out' = <<Emit("room:message-delete", ToRoomExcept(s, roomId, joined, closed),
                             roomId, "", <<>>, userId)>>
       /\ UNCHANGED <<userVars, roomVars, joined, closed, nextRoom, pending, rateVars, now>>

RoomReaction(s, roomId) ==
    LET userId == socketToUser[s]
    IN /\ s \in Live
       /\ last' = [NoEvent EXCEPT !.op = "room:reaction", !.sock = s, !.user = userId,
                                  !.room = roomId]
       /\ IF ~RoomAuthorized(roomId, userId)
          THEN out' = <<Error(s, "Not authorized to react in this room")>>
          ELSE out' = <<Emit("room:reaction", ToRoom(roomId, joined, closed), roomId, "",
                             <<>>, userId)>>
       /\ UNCHANGED <<userVars, roomVars, joined, closed, nextRoom, pending, rateVars, now>>

\* line 450 with >= for >: a file of exactly the ceiling is refused
FileTooLargeOffByOne(fileSize) == fileSize >= MAX_FILE_SIZE
\* line 450: fileSize > MAX_FILE_SIZE
FileTooLarge(fileSize) == fileSize > MAX_FILE_SIZE

RoomFileStart(s, roomId, fileSize, totalChunks) ==
    LET userId == socketToUser[s]
        res == checkRateLimit(userFileCounts, userId, FILE_RATE_LIMIT, now)
    IN /\ s \in Live
       /\ last' = [NoEvent EXCEPT !.op = "room:file:start", !.sock = s, !.user = userId,
                                  !.room = roomId, !.size = fileSize,
                                  !.chunks = totalChunks,
                                  !.prior = IF RoomAuthorized(roomId, userId)
                                            THEN Expired(userFileCounts, userId, now)
                                            ELSE 0]
       /\ IF ~RoomAuthorized(roomId, userId)
          THEN /\ out' = <<Error(s, "Not authorized to send files in this room")>>
               /\ UNCHANGED userFileCounts
          ELSE /\ userFileCounts' = res.counts
               /\ out' =
                    IF ~res.allowed
                    THEN <<Error(s, "File transfer rate limit exceeded. Please wait before sending another file.")>>
                    ELSE IF FileTooLarge(fileSize)
                    THEN <<Error(s, "File size too large. Maximum 50MB allowed.")>>
                    ELSE IF totalChunks > MAX_CHUNKS
                    THEN <<Error(s, "Too many chunks. Please try a smaller file.")>>
                    ELSE IF users[userId] = NoSock
                    \* user.name throws at line 473 or 478; caught at line 479
                    THEN <<Error(s, "Failed to start file transfer")>>
                    ELSE <<Emit("room:file:start", MemberSockets(s, roomId), roomId, "",
                                <<>>, userId)>>
       /\ UNCHANGED <<userVars, roomVars, joined, closed, nextRoom, pending,
                      userMessageCounts, msgAllowed, now>>

RoomFileChunk(s, roomId) ==
    LET userId == socketToUser[s]
    IN /\ s \in Live
       /\ last' = [NoEvent EXCEPT !.op = "room:file:chunk", !.sock = s, !.user = userId,
                                  !.room = roomId]
       /\ IF ~RoomAuthorized(roomId, userId)
          THEN out' = <<Error(s, "Not authorized to send files in this room")>>
          ELSE out' = <<Emit("room:file:chunk", MemberSockets(s, roomId), roomId, "", <<>>,
                             userId)>>
       /\ UNCHANGED <<userVars, roomVars, joined, closed, nextRoom, pending, rateVars, now>>

RoomFileEnd(s, roomId) ==
    LET userId == socketToUser[s]
    IN /\ s \in Live
       /\ last' = [NoEvent EXCEPT !.op = "room:file:end", !.sock = s, !.user = userId,
                                  !.room = roomId]
       /\ IF ~RoomAuthorized(roomId, userId)
          THEN out' = <<Error(s, "Not authorized to send files in this room")>>
          ELSE out' = <<Emit("room:file:end", MemberSockets(s, roomId), roomId, "", <<>>,
                             userId)>>
       /\ UNCHANGED <<userVars, roomVars, joined, closed, nextRoom, pending, rateVars, now>>

\* ------------------------------------------------------------------------
\* Signaling relay: webrtc:offer, webrtc:answer, webrtc:ice-candidate
\* (roomId 0: the message carries no roomId)
\* ------------------------------------------------------------------------
\* users.get(targetUserId) is defined
TargetKnown(targetUserId) == targetUserId \in DOMAIN users /\ users[targetUserId] # NoSock

\* lines 549-555: the message is scoped to a room and the room is unknown or
\* does not hold both the sender and the target
OfferOutsideRoom(roomId, userId, targetUserId) ==
    /\ roomId # 0
    /\ ~(/\ roomId \in rooms
         /\ Has(roomObj[roomId].members, userId)
         /\ Has(roomObj[roomId].members, targetUserId))

\* io.to(targetUser.socketId).emit(name, {fromUserId, ..., roomId})
Signal(name, targetUserId, roomId, userId) ==
    Emit(name, ToSocket(users[targetUserId], closed), roomId, "", <<>>, userId)

WebrtcOffer(s, targetUserId, roomId) ==
    LET userId == socketToUser[s]
    IN /\ s \in Live
       /\ last' = [NoEvent EXCEPT !.op = "webrtc:offer", !.sock = s, !.user = userId,
                                  !.room = roomId, !.target = targetUserId]
       /\ out' = IF ~TargetKnown(targetUserId)
                 THEN <<Error(s, "Target user not found")>>
                 ELSE IF OfferOutsideRoom(roomId, userId, targetUserId)
                 THEN <<Error(s, "Both users must be in the same room for direct connection")>>
                 ELSE <<Signal("webrtc:offer", targetUserId, roomId, userId)>>
       /\ UNCHANGED <<userVars, roomVars, joined, closed, nextRoom, pending, rateVars, now>>

WebrtcAnswer(s, targetUserId, roomId) ==
    LET userId == socketToUser[s]
    IN /\ s \in Live
       /\ last' = [NoEvent EXCEPT !.op = "webrtc:answer", !.sock = s, !.user = userId,
                                  !.room = roomId, !.target = targetUserId]
       /\ out' = IF ~TargetKnown(targetUserId)
                 THEN <<Error(s, "Target user not found")>>
                 ELSE <<Signal("webrtc:answer", targetUserId, roomId, userId)>>
       /\ UNCHANGED <<userVars, roomVars, joined, closed, nextRoom, pending, rateVars, now>>

WebrtcIceCandidate(s, targetUserId, roomId) ==
    LET userId == socketToUser[s]
    IN /\ s \in Live
       /\ last' = [NoEvent EXCEPT !.op = "webrtc:ice-candidate", !.sock = s,
                                  !.user = userId, !.room = roomId,
                                  !.target = targetUserId]
       /\ out' = IF ~TargetKnown(targetUserId)
                 THEN <<Error(s, "Target user not found")>>
                 ELSE <<Signal("webrtc:ice-candidate", targetUserId, roomId, userId)>>
       /\ UNCHANGED <<userVars, roomVars, joined, closed, nextRoom, pending, rateVars, now>>

\* ------------------------------------------------------------------------
\* The room and session coordinator: registration, room lifecycle, disconnect,
\* for two connections
\* ------------------------------------------------------------------------
LifeSockets == {"s1", "s2"}
\* room:create requests: public, private with a PIN and room for one, private with a PIN
CreateInputs == {<<FALSE, NoPin, 0>>, <<TRUE, 1, 1>>, <<TRUE, 1, 0>>}

Next ==
    \/ \E s \in LifeSockets, userId \in 0..MaxFewUsers :
          UserJoin(s, userId) /\ nextUser' <= MaxFewUsers + 1
          /\ UNCHANGED restVars
    \/ \E s \in LifeSockets, c \in CreateInputs :
          RoomCreate(s, c[1], c[2], c[3]) /\ Cardinality(pending') <= MaxPending
          /\ UNCHANGED restVars
    \/ \E p \in pending : RoomCreateResume(p)
          /\ UNCHANGED restVars
    \/ \E s \in LifeSockets, r \in RoomIds, pin \in PinInputs :
          RoomJoin(s, r, pin) /\ Cardinality(pending') <= MaxPending
          /\ UNCHANGED restVars
    \/ \E p \in pending : RoomJoinResume(p)
          /\ UNCHANGED restVars
    \/ \E s \in LifeSockets, pin \in PinInputs :
          RoomJoinByPin(s, pin) /\ Cardinality(pending') <= MaxPending
          /\ UNCHANGED restVars
    \/ \E p \in pending : RoomJoinByPinResume(p)
          /\ UNCHANGED restVars
    \/ \E s \in LifeSockets, r \in RoomIds, t \in UserIds : RoomKick(s, r, t)
          /\ UNCHANGED restVars
    \/ \E s \in LifeSockets, r \in RoomIds : RoomLeave(s, r)
          /\ UNCHANGED restVars
    \/ \E s \in LifeSockets : Disconnect(s)
          /\ UNCHANGED restVars

Spec == Init /\ [][Next]_vars

\* ------------------------------------------------------------------------
\* The join race: three connections, one PIN-protected room for two, and
\* room:join handlers suspended at PIN verification
\* ------------------------------------------------------------------------
NextRace ==
    \/ \E s \in Sockets : UserJoin(s, NoUser)
          /\ UNCHANGED restVars
    \/ \E s \in Sockets : RoomCreate(s, TRUE, 1, 2) /\ Cardinality(pending') <= MaxRacing
          /\ UNCHANGED restVars
    \/ \E p \in pending : RoomCreateResume(p)
          /\ UNCHANGED restVars
    \/ \E s \in Sockets, r \in RoomIds, pin \in Pins :
          RoomJoin(s, r, pin) /\ Cardinality(pending') <= MaxRacing
          /\ UNCHANGED restVars
    \/ \E p \in pending : RoomJoinResume(p)
          /\ UNCHANGED restVars

SpecRace == Init /\ [][NextRace]_vars

\* ------------------------------------------------------------------------
\* Rate limiting: two connections, each registering once, in a public room
\* the first one creates; the first one sends; the clock advances
\* ------------------------------------------------------------------------
Senders == {"s1"}
FileSizes == {MAX_FILE_SIZE, MAX_FILE_SIZE + 1}
ChunkCounts == {MAX_CHUNKS, MAX_CHUNKS + 1}

NextRate ==
    \/ \E s \in LifeSockets : socketToUser[s] = NoUser /\ UserJoin(s, NoUser)
          /\ UNCHANGED restVars
    \/ \E s \in Senders : RoomCreate(s, FALSE, NoPin, 0)
          /\ UNCHANGED restVars
    \/ \E s \in LifeSockets, r \in RoomIds : RoomJoin(s, r, NoPin)
          /\ UNCHANGED restVars
    \/ \E s \in Senders, r \in RoomIds : RoomMessage(s, r)
          /\ UNCHANGED restVars
    \/ \E s \in Senders, r \in RoomIds, size \in FileSizes, n \in ChunkCounts :
          RoomFileStart(s, r, size, n)
          /\ UNCHANGED restVars
    \/ Tick
          /\ UNCHANGED restVars

SpecRate == Init /\ [][NextRate]_vars

\* ------------------------------------------------------------------------
\* The relay of room-scoped events: two connections, one public room, the first
\* connection sending
\* ------------------------------------------------------------------------
NextRelay ==
    \/ \E s \in LifeSockets : UserJoin(s, NoUser) /\ nextUser' <= MaxFewUsers + 1
          /\ UNCHANGED restVars
    \/ \E s \in LifeSockets : RoomCreate(s, FALSE, NoPin, 0)
          /\ UNCHANGED restVars
    \/ \E s \in LifeSockets, r \in RoomIds : RoomJoin(s, r, NoPin)
          /\ UNCHANGED restVars
    \/ \E s \in LifeSockets, r \in RoomIds : RoomLeave(s, r)
          /\ UNCHANGED restVars
    \/ \E s \in Senders, r \in RoomIds : RoomMessage(s, r)
          /\ UNCHANGED restVars
    \/ \E s \in Senders, r \in RoomIds : RoomTyping(s, r)
          /\ UNCHANGED restVars
    \/ \E s \in Senders, r \in RoomIds : RoomMessageEdit(s, r)
          /\ UNCHANGED restVars
    \/ \E s \in Senders, r \in RoomIds : RoomMessageDelete(s, r)
          /\ UNCHANGED restVars
    \/ \E s \in Senders, r \in RoomIds : RoomReaction(s, r)
          /\ UNCHANGED restVars
    \/ \E s \in Senders, r \in RoomIds, size \in FileSizes, n \in ChunkCounts :
          RoomFileStart(s, r, size, n)
          /\ UNCHANGED restVars
    \/ \E s \in Senders, r \in RoomIds : RoomFileChunk(s, r)
          /\ UNCHANGED restVars
    \/ \E s \in Senders, r \in RoomIds : RoomFileEnd(s, r)
          /\ UNCHANGED restVars

SpecRelay == Init /\ [][NextRelay]_vars

\* ------------------------------------------------------------------------
\* The receiving client (src/public/app.js) and the relay of a file transfer
\* ------------------------------------------------------------------------
\* the connection whose client application is modelled
Receiver == "s2"
\* base64 chunk payloads: an empty string and a non-empty one
ChunkData == {"", "QUJD"}
\* chunk indexes a sender names: those of the transfer and one beyond them
ChunkIndexes == 0..FileChunks

\* a file event as the server sends it (lines 469-477, 498-504, 524-528)
FileEvent(ev, roomId, from, totalChunks, chunkIndex, chunk) ==
    [ev |-> ev, roomId |-> roomId, fromUserId |-> from, totalChunks |-> totalChunks,
     chunkIndex |-> chunkIndex, chunk |-> chunk]

\* io.to(member.socketId).emit(ev, ...) of the step reached the receiving client
Delivered(o, ev) == \E i \in 1..Len(o) : o[i].ev = ev /\ Receiver \in o[i].to

\* the guard of the three handlers: the event is for the open room chat and is
\* not from the client's own identity
ClientAccepts(data) ==
    /\ currentChat # NoChat
    /\ currentChat = data.roomId
    /\ data.fromUserId # socketToUser[Receiver]

\* Map.prototype.set on the chunks Map
ChunkSet(chunks, i, d) ==
    [k \in DOMAIN chunks \cup {i} |-> IF k = i THEN d ELSE chunks[k]]

\* assembleRoomFile without the count test of line 1482
assembleRoomFileNoCount(transfer) == "received"
\* assembleRoomFile(transfer): the notification it ends with
assembleRoomFile(transfer) ==
    LET got == {i \in 0..(transfer.totalChunks - 1) :
                   i \in DOMAIN transfer.chunks /\ transfer.chunks[i] # ""}
    IN IF Cardinality(got) # transfer.totalChunks
       THEN "incomplete:assemble"
       ELSE "received"

\* the server's room:file:start, and its event on the way to the client
SendFileStart(s, roomId, fileSize, totalChunks) ==
    /\ RoomFileStart(s, roomId, fileSize, totalChunks)
    /\ IF Delivered(out', "room:file:start")
       THEN /\ inbox' = Append(inbox, FileEvent("room:file:start", roomId, socketToUser[s],
                                                 totalChunks, 0, ""))
            /\ announced' = totalChunks
       ELSE UNCHANGED <<inbox, announced>>
    /\ UNCHANGED <<currentChat, fileTransfers, notice, queueVars, departed, sendVars>>

SendFileChunk(s, roomId, chunkIndex, chunk) ==
    /\ RoomFileChunk(s, roomId)
    /\ inbox' = IF Delivered(out', "room:file:chunk")
                THEN Append(inbox, FileEvent("room:file:chunk", roomId, socketToUser[s],
                                             0, chunkIndex, chunk))
                ELSE inbox
    /\ UNCHANGED <<currentChat, fileTransfers, notice, announced, departed, sendVars, queueVars>>

SendFileEnd(s, roomId) ==
    /\ RoomFileEnd(s, roomId)
    /\ inbox' = IF Delivered(out', "room:file:end")
                THEN Append(inbox, FileEvent("room:file:end", roomId, socketToUser[s],
                                             0, 0, ""))
                ELSE inbox
    /\ UNCHANGED <<currentChat, fileTransfers, notice, announced, departed, sendVars, queueVars>>

serverVars == <<users, socketToUser, rooms, roomObj, joined, closed, nextUser, nextRoom,
                pending, userMessageCounts, userFileCounts, now, out, last, msgAllowed>>

handleRoomFileTransferStart ==
    /\ inbox # <<>>
    /\ Head(inbox).ev = "room:file:start"
    /\ inbox' = Tail(inbox)
    /\ fileTransfers' = IF ClientAccepts(Head(inbox))
                        THEN [tracked |-> TRUE, totalChunks |-> Head(inbox).totalChunks,
                              chunks |-> <<>>]
                        ELSE fileTransfers
    /\ notice' = ""
    /\ UNCHANGED <<serverVars, currentChat, announced, departed, sendVars, queueVars>>

handleRoomFileTransferChunk ==
    /\ inbox # <<>>
    /\ Head(inbox).ev = "room:file:chunk"
    /\ inbox' = Tail(inbox)
    /\ fileTransfers' = IF ClientAccepts(Head(inbox)) /\ fileTransfers.tracked
                        THEN [fileTransfers EXCEPT
                                !.chunks = ChunkSet(@, Head(inbox).chunkIndex,
                                                    Head(inbox).chunk)]
                        ELSE fileTransfers
    /\ notice' = ""
    /\ UNCHANGED <<serverVars, currentChat, announced, departed, sendVars, queueVars>>

handleRoomFileTransferEnd ==
    /\ inbox # <<>>
    /\ Head(inbox).ev = "room:file:end"
    /\ inbox' = Tail(inbox)
    /\ notice' = IF ~(ClientAccepts(Head(inbox)) /\ fileTransfers.tracked)
                 THEN ""
                 ELSE IF Cardinality(DOMAIN fileTransfers.chunks) = fileTransfers.totalChunks
                 THEN assembleRoomFile(fileTransfers)
                 ELSE "incomplete"
    /\ UNCHANGED <<serverVars, currentChat, fileTransfers, announced, departed, sendVars, queueVars>>

\* the user opens the chat of a room of the list
startRoomChat(roomId) ==
    /\ roomId \in rooms
    /\ currentChat' = roomId
    /\ notice' = ""
    /\ UNCHANGED <<serverVars, inbox, fileTransfers, announced, departed, sendVars, queueVars>>

closeChat ==
    /\ currentChat' = NoChat
    /\ notice' = ""
    /\ UNCHANGED <<serverVars, inbox, fileTransfers, announced, departed, sendVars, queueVars>>

NextFile ==
    \/ \E s \in LifeSockets : socketToUser[s] = NoUser /\ UserJoin(s, NoUser)
          /\ UNCHANGED restVars
    \/ \E s \in Senders : RoomCreate(s, FALSE, NoPin, 0)
          /\ UNCHANGED restVars
    \/ \E s \in LifeSockets, r \in RoomIds : RoomJoin(s, r, NoPin)
          /\ UNCHANGED restVars
    \/ \E s \in Senders, r \in RoomIds :
          SendFileStart(s, r, MAX_FILE_SIZE, FileChunks) /\ Len(inbox') <= MaxInbox
    \/ \E s \in Senders, r \in RoomIds, i \in ChunkIndexes, d \in ChunkData :
          SendFileChunk(s, r, i, d) /\ Len(inbox') <= MaxInbox
    \/ \E s \in Senders, r \in RoomIds : SendFileEnd(s, r) /\ Len(inbox') <= MaxInbox
    \/ handleRoomFileTransferStart
    \/ handleRoomFileTransferChunk
    \/ handleRoomFileTransferEnd
    \/ \E r \in RoomIds : startRoomChat(r)
    \/ closeChat

SpecFile == Init /\ [][NextFile]_vars

\* ------------------------------------------------------------------------
\* Claims about the room directory
\* ------------------------------------------------------------------------
ErrorsIn(o) == {i \in 1..Len(o) : o[i].ev = "error"}
IsError(e, s, msg) == e.ev = "error" /\ e.to = {s} /\ e.msg = msg

\* C1: every room of the directory with a non-empty member set has its leader
\* (leadUserId) in its member set.
C1_LeaderIsMember ==
    \A r \in rooms :
        roomObj[r].members # <<>> => Has(roomObj[r].members, roomObj[r].leadUserId)

\* C2: no room with an empty member set is in the directory.
C2_NoEmptyRoom == \A r \in rooms : roomObj[r].members # <<>>

\* C3: every room of the directory has at most maxMembers members.
C3_WithinCapacity == \A r \in rooms : Len(roomObj[r].members) <= roomObj[r].maxMembers

\* a room:join has just been received for a room of the directory whose member
\* count equals its maxMembers (unprimed: the state the handler found)
JoinToFullRoom ==
    /\ last'.op = "room:join"
    /\ last'.room \in rooms
    /\ Len(roomObj[last'.room].members) = roomObj[last'.room].maxMembers
JoinAnsweredFull ==
    /\ Len(out') = 1
    /\ IsError(out'[1], last'.sock, "Room is full")
    /\ roomObj'[last'.room].members = roomObj[last'.room].members

\* C4 as stated: a room:join addressed to a room whose member count equals its
\* maxMembers is always answered with 'Room is full' and leaves the member set
\* unchanged.
C4_FullAlways == [][JoinToFullRoom => JoinAnsweredFull]_vars

\* C4 as amended: a room:join from a registered identity addressed to a room whose
\* member count equals its maxMembers is answered with 'Room is full', and any
\* room:join addressed to such a room leaves its member set unchanged.
C4_FullForRegistered ==
    [][JoinToFullRoom =>
          /\ roomObj'[last'.room].members = roomObj[last'.room].members
          /\ UserKnown(last'.user) => JoinAnsweredFull]_vars

\* a registered identity has just been refused a full room
C4_Witness ==
    /\ last.op = "room:join"
    /\ last.room \in rooms
    /\ last.user # NoUser
    /\ users[last.user] # NoSock
    /\ Len(roomObj[last.room].members) = roomObj[last.room].maxMembers
    /\ Len(out) = 1
    /\ IsError(out[1], last.sock, "Room is full")

\* the removal asked for finds the identity absent from the room
LeaveOfAbsent ==
    /\ last'.op = "room:leave"
    /\ ~(last'.room \in rooms /\ Has(roomObj[last'.room].members, last'.user))
KickOfAbsent ==
    /\ last'.op = "room:kick"
    /\ KickAuthorized(last'.room, last'.user)
    /\ ~Has(roomObj[last'.room].members, last'.target)

\* C6 as stated: a room:kick of a target that is not a member of the room changes
\* no room state and sends no error event, whoever sends it.
C6_AnyKickSilent ==
    [][(/\ last'.op = "room:kick"
        /\ last'.room \in rooms
        /\ ~Has(roomObj[last'.room].members, last'.target))
       => /\ rooms' = rooms
          /\ roomObj' = roomObj
          /\ ErrorsIn(out') = {}]_vars

\* C6, amended: removing an identity from a room it is not in changes no room
\* state, sends no error event and reassigns no leader: a room:leave by a
\* non-member, a kick by the room's leader of a non-member, and a disconnect, for
\* every room the identity is not in.
C6_RemovalIdempotent ==
    [][/\ (LeaveOfAbsent \/ KickOfAbsent) =>
             /\ rooms' = rooms
             /\ roomObj' = roomObj
             /\ ErrorsIn(out') = {}
       /\ last'.op = "disconnect" =>
             /\ ErrorsIn(out') = {}
             /\ \A r \in rooms :
                   ~Has(roomObj[r].members, last'.user) =>
                       r \in rooms' /\ roomObj'[r] = roomObj[r]]_vars

\* a registered identity that is not a member of a room of the directory has
\* just sent room:leave for it, and nothing was emitted
C6_Witness ==
    /\ last.op = "room:leave"
    /\ last.room \in rooms
    /\ last.user # NoUser
    /\ ~Has(roomObj[last.room].members, last.user)
    /\ out = <<>>

\* C7: no event sent to a client carries a PIN digest: no room snapshot of any
\* emitted event has a pinHash field.
C7_NoPinInSnapshots ==
    \A i \in 1..Len(out) :
        \A j \in 1..Len(out[i].snaps) : "pinHash" \notin DOMAIN out[i].snaps[j]

\* a snapshot of a PIN-protected room has just been sent to a joiner
C7_Witness ==
    \E i \in 1..Len(out) :
        /\ out[i].ev = "room:joined"
        /\ out[i].to # {}
        /\ Len(out[i].snaps) = 1
        /\ roomObj[out[i].room].pinHash # NoHash

\* ------------------------------------------------------------------------
\* Claims about concurrent joins
\* ------------------------------------------------------------------------
\* C5: no interleaving of room:join handlers takes a room above maxMembers: a
\* room:join resumed after PIN verification never takes a room of the directory
\* from within its capacity to above it.
C5_JoinRaceSafe ==
    [][(/\ last'.op = "room:join/resume"
        /\ last'.room \in rooms
        /\ Len(roomObj[last'.room].members) <= roomObj[last'.room].maxMembers)
       => Len(roomObj'[last'.room].members) <= roomObj[last'.room].maxMembers]_vars

\* ------------------------------------------------------------------------
\* Claims about rate limiting
\* ------------------------------------------------------------------------
RateError == "Message rate limit exceeded. Please slow down."
FileRateError ==
    "File transfer rate limit exceeded. Please wait before sending another file."

\* a member's room:message arrives while its window is running and has already
\* had MESSAGE_RATE_LIMIT checks allowed
MessageInExhaustedWindow ==
    /\ last'.op = "room:message"
    /\ last'.room \in rooms
    /\ Has(roomObj[last'.room].members, last'.user)
    /\ msgAllowed[last'.user] >= MESSAGE_RATE_LIMIT
    /\ userMessageCounts[last'.user].count # 0
    /\ now <= userMessageCounts[last'.user].resetTime

\* C8: once 10 message checks have been allowed in an identity's window, every
\* further message check up to the window's reset time is denied, and the
\* room:message that triggered it is relayed to no one.
C8_EleventhDenied ==
    [][MessageInExhaustedWindow =>
          /\ Len(out') = 1
          /\ IsError(out'[1], last'.sock, RateError)
          /\ userMessageCounts' = userMessageCounts]_vars

\* the 11th message of a window has just been refused, with another member's
\* connection there to receive it
C8_Witness ==
    /\ last.op = "room:message"
    /\ last.user # NoUser
    /\ msgAllowed[last.user] = MESSAGE_RATE_LIMIT
    /\ Len(out) = 1
    /\ IsError(out[1], last.sock, RateError)
    /\ MemberSockets(last.sock, last.room) # {}

\* C9: the first rate check an identity makes after its window's reset time has
\* passed is allowed, sets the count to 1 and starts a new 60-second window at
\* that moment, whatever the count of the old window was.
C9_ResetAfterWindow ==
    [][/\ (/\ last'.op = "room:message"
           /\ last'.room \in rooms
           /\ Has(roomObj[last'.room].members, last'.user)
           /\ userMessageCounts[last'.user].count # 0
           /\ now > userMessageCounts[last'.user].resetTime)
          => /\ userMessageCounts'[last'.user] =
                   [count |-> 1, resetTime |-> now + RATE_WINDOW_MS]
             /\ Len(out') = 1
             /\ out'[1].ev = "room:message"
       /\ (/\ last'.op = "room:file:start"
           /\ last'.room \in rooms
           /\ Has(roomObj[last'.room].members, last'.user)
           /\ userFileCounts[last'.user].count # 0
           /\ now > userFileCounts[last'.user].resetTime)
          => /\ userFileCounts'[last'.user] =
                   [count |-> 1, resetTime |-> now + RATE_WINDOW_MS]
             /\ \A i \in 1..Len(out') : out'[i].msg # FileRateError]_vars

\* a message sent after an exhausted window ran out has just been relayed
C9_Witness ==
    /\ last.op = "room:message"
    /\ last.user # NoUser
    /\ last.prior = MESSAGE_RATE_LIMIT
    /\ userMessageCounts[last.user] = [count |-> 1, resetTime |-> now + RATE_WINDOW_MS]
    /\ Len(out) = 1
    /\ out[1].ev = "room:message"
    /\ out[1].to # {}

\* ------------------------------------------------------------------------
\* Claims about the relay of room-scoped events
\* ------------------------------------------------------------------------
RoomScopedOps ==
    {"room:message", "room:message-edit", "room:message-delete", "room:reaction",
     "room:typing", "room:file:start", "room:file:chunk", "room:file:end"}

\* C10: a room-scoped inbound event whose sending identity is not a member of
\* the named room is relayed to no connection: whatever the server emits for it
\* is an error event addressed to the sender alone.
C10_NonMemberNotRelayed ==
    [][(/\ last'.op \in RoomScopedOps
        /\ ~(last'.room \in rooms /\ Has(roomObj[last'.room].members, last'.user)))
       => \A i \in 1..Len(out') :
             out'[i].ev = "error" /\ out'[i].to \subseteq {last'.sock}]_vars

\* a registered identity outside a room that has a connected member has just
\* sent a message to that room
C10_Witness ==
    /\ last.op = "room:message"
    /\ last.room \in rooms
    /\ last.user # NoUser
    /\ users[last.user] # NoSock
    /\ ~Has(roomObj[last.room].members, last.user)
    /\ MemberSockets(last.sock, last.room) # {}
    /\ Len(out) = 1
    /\ out[1].ev = "error"

\* C11: a room-scoped inbound event of any of the eight kinds, sent by an
\* identity that is not a member of the named room, is answered with an error
\* event to the sender.
C11_NonMemberAnswered ==
    [][(/\ last'.op \in RoomScopedOps
        /\ ~(last'.room \in rooms /\ Has(roomObj[last'.room].members, last'.user)))
       => \E i \in 1..Len(out') :
             out'[i].ev = "error" /\ out'[i].to = {last'.sock}]_vars

\* ------------------------------------------------------------------------
\* Claims about end-to-end scenarios
\* ------------------------------------------------------------------------
\* the room:join handlers that have just resumed from PIN verification
ResumedJoins == {p \in pending \ pending' : p.kind = "join" /\ last'.op = "room:join/resume"}

\* C12 (scenario A), for a private room with a PIN and maxMembers = 2: a room:join
\* that supplied a different PIN is answered 'Invalid PIN' and adds no one; a
\* room:join with the right PIN by an outsider, the creator being alone, adds the
\* joiner and reports memberCount 2; a room:join to the room once it has two
\* members is answered 'Room is full' and adds no one.
C12_ScenarioA ==
    [][/\ \A p \in ResumedJoins :
             LET room == roomObj[p.room]
             IN /\ bcryptHash(p.pin) # room.pinHash =>
                      /\ Len(out') = 1
                      /\ IsError(out'[1], p.sock, "Invalid PIN")
                      /\ roomObj'[p.room].members = room.members
                /\ (/\ bcryptHash(p.pin) = room.pinHash
                    /\ p.room \in rooms
                    /\ room.maxMembers = 2
                    /\ Len(room.members) = 1
                    /\ ~Has(room.members, p.user)) =>
                      /\ roomObj'[p.room].members = Append(room.members, p.user)
                      /\ out'[1].ev = "room:joined"
                      /\ out'[1].to = {p.sock}
                      /\ out'[1].snaps[1].memberCount = 2
       /\ (/\ last'.op = "room:join"
           /\ UserKnown(last'.user)
           /\ last'.room \in rooms
           /\ roomObj[last'.room].maxMembers = 2
           /\ Len(roomObj[last'.room].members) = 2) =>
             /\ Len(out') = 1
             /\ IsError(out'[1], last'.sock, "Room is full")
             /\ roomObj'[last'.room].members = roomObj[last'.room].members]_vars

\* a third identity has just been refused a PIN-protected room for two that
\* holds its creator and one joiner
C12_Witness ==
    /\ last.op = "room:join"
    /\ last.room \in rooms
    /\ last.user # NoUser
    /\ roomObj[last.room].isPrivate
    /\ roomObj[last.room].pinHash # NoHash
    /\ roomObj[last.room].maxMembers = 2
    /\ Len(roomObj[last.room].members) = 2
    /\ ~Has(roomObj[last.room].members, last.user)
    /\ Len(out) = 1
    /\ IsError(out[1], last.sock, "Room is full")

\* C13 (scenario B): when the connection of one of the two members of a room
\* disconnects, the room stays in the directory with the other member alone, who
\* is its leader if the one who left was; when the connection of a room's only
\* member disconnects, the room leaves the directory.
C13_ScenarioB ==
    [][(last'.op = "disconnect" /\ last'.user # NoUser) =>
          \A r \in rooms :
             LET room == roomObj[r]
                 X == last'.user
             IN Has(room.members, X) =>
                   /\ Len(room.members) = 2 =>
                         /\ r \in rooms'
                         /\ roomObj'[r].members = SetDelete(room.members, X)
                         /\ Len(roomObj'[r].members) = 1
                         /\ room.leadUserId = X =>
                               roomObj'[r].leadUserId = roomObj'[r].members[1]
                         /\ room.leadUserId # X =>
                               roomObj'[r].leadUserId = room.leadUserId
                   /\ Len(room.members) = 1 => r \notin rooms']_vars

\* one of the two members of a room has just disconnected: the room is still in
\* the directory, the other member leads it alone and has been sent the room:update
C13_Witness ==
    /\ last.op = "disconnect"
    /\ last.user # NoUser
    /\ \E r \in rooms :
          /\ Len(roomObj[r].members) = 1
          /\ roomObj[r].leadUserId = roomObj[r].members[1]
          /\ roomObj[r].leadUserId # last.user
          /\ \E i \in 1..Len(out) :
                /\ out[i].ev = "room:update"
                /\ out[i].room = r
                /\ out[i].to = {users[roomObj[r].members[1]]}

\* ------------------------------------------------------------------------
\* Claims about the file relay and the receiving client
\* ------------------------------------------------------------------------
\* the receiving client handles a room:file:end in this step
EndHandled == inbox # <<>> /\ Head(inbox).ev = "room:file:end" /\ inbox' = Tail(inbox)
\* the client holds a chunk for every index 0..n-1 of the transfer it tracks
HoldsAll(transfer, n) ==
    transfer.tracked /\ \A i \in 0..(n - 1) : i \in DOMAIN transfer.chunks
Incomplete == {"incomplete", "incomplete:assemble"}

\* C14 as stated: on every room:file:end of an announced transfer the receiving
\* client treats the file as received only if it holds every index 0..n-1, and
\* reports the transfer as incomplete whenever it holds fewer than n distinct
\* indices.
C14_AlwaysReported ==
    [][(EndHandled /\ announced # 0) =>
          /\ notice' = "received" => HoldsAll(fileTransfers, announced)
          /\ (~fileTransfers.tracked
              \/ Cardinality(DOMAIN fileTransfers.chunks) < announced) =>
                notice' \in Incomplete]_vars

\* C14, amended: on room:file:end the client treats the file as received only if
\* it holds every index 0..n-1 of the transfer; while the room's chat is open and
\* the transfer is tracked, it reports the transfer as incomplete when it holds
\* fewer than n distinct indices or misses one of 0..n-1; and the server relays
\* every room:file:chunk and room:file:end of a member without an error.
C14_CompletenessDetected ==
    [][/\ EndHandled =>
             /\ notice' = "received" =>
                   HoldsAll(fileTransfers, fileTransfers.totalChunks)
             /\ (ClientAccepts(Head(inbox)) /\ fileTransfers.tracked) =>
                   /\ Cardinality(DOMAIN fileTransfers.chunks)
                         < fileTransfers.totalChunks => notice' = "incomplete"
                   /\ ~HoldsAll(fileTransfers, fileTransfers.totalChunks) =>
                         notice' \in Incomplete
       /\ (/\ last'.op \in {"room:file:chunk", "room:file:end"}
           /\ last'.room \in rooms
           /\ Has(roomObj[last'.room].members, last'.user)) =>
             /\ Len(out') = 1
             /\ out'[1].ev = last'.op
             /\ out'[1].to = MemberSockets(last'.sock, last'.room)]_vars

\* scenario C: chunks 0, 1 and 3 of 4 arrived before the end, and the client
\* has just reported the transfer as incomplete
C14_Witness ==
    /\ fileTransfers.tracked
    /\ fileTransfers.totalChunks = 4
    /\ DOMAIN fileTransfers.chunks = {0, 1, 3}
    /\ notice = "incomplete"
    /\ last.op = "room:file:end"

\* ------------------------------------------------------------------------
\* Claims about disconnection
\* ------------------------------------------------------------------------
\* C15, its membership part: an identity whose connection's disconnect has been
\* handled, and that has not registered again, is absent from the registry and
\* is a member of no room of the directory, also when a handler of that
\* connection was suspended at PIN hashing or verification.
C15_GoneIsNoMember ==
    \A u \in UserIds :
        (u < nextUser /\ users[u] = NoSock) =>
            \A r \in rooms : ~Has(roomObj[r].members, u)

\* ------------------------------------------------------------------------
\* Room privacy: two connections, one room, created private with or without
\* a PIN, and every way of joining it
\* ------------------------------------------------------------------------
\* room:create requests for a private room: no pin, and a pin
PrivateInputs == {<<TRUE, NoPin, 0>>, <<TRUE, 1, 0>>}

NextPrivacy ==
    \/ \E s \in LifeSockets : UserJoin(s, NoUser)
          /\ UNCHANGED restVars
    \/ \E s \in LifeSockets, c \in PrivateInputs :
          RoomCreate(s, c[1], c[2], c[3]) /\ Cardinality(pending') <= MaxRacing
          /\ UNCHANGED restVars
    \/ \E p \in pending : RoomCreateResume(p)
          /\ UNCHANGED restVars
    \/ \E s \in LifeSockets, r \in RoomIds, pin \in PinInputs :
          RoomJoin(s, r, pin) /\ Cardinality(pending') <= MaxRacing
          /\ UNCHANGED restVars
    \/ \E p \in pending : RoomJoinResume(p)
          /\ UNCHANGED restVars
    \/ \E s \in LifeSockets, pin \in PinInputs :
          RoomJoinByPin(s, pin) /\ Cardinality(pending') <= MaxRacing
          /\ UNCHANGED restVars
    \/ \E p \in pending : RoomJoinByPinResume(p)
          /\ UNCHANGED restVars
    \/ \E s \in LifeSockets, r \in RoomIds : RoomLeave(s, r)
          /\ UNCHANGED restVars

SpecPrivacy == Init /\ [][NextPrivacy]_vars

\* an identity that was not a member of room r before the step and is after it
Admitted(r, u) ==
    /\ r \in rooms /\ r \in rooms'
    /\ ~Has(roomObj[r].members, u)
    /\ Has(roomObj'[r].members, u)

\* C16: an identity other than the creator becomes a member of a room marked
\* private only through a join that supplied a PIN, that is, in the model, only
\* in the step that resumes a room:join or a room:joinByPin after the PIN
\* comparison; no step of another kind (a room:join answered without any
\* comparison) admits anyone to a private room.
C16_PrivateNeedsPin ==
    [][\A r \in RoomIds, u \in UserIds :
          (Admitted(r, u) /\ roomObj[r].isPrivate) =>
              last'.op \in {"room:join/resume", "room:joinByPin/resume"}]_vars

\* C16, the part that holds: in a private room that stores a PIN digest, every
\* admission happens in a step resuming from a PIN comparison.
C16_PinRoomNeedsPin ==
    [][\A r \in RoomIds, u \in UserIds :
          (Admitted(r, u) /\ roomObj[r].isPrivate /\ roomObj[r].pinHash # NoHash) =>
              last'.op \in {"room:join/resume", "room:joinByPin/resume"}]_vars

\* ------------------------------------------------------------------------
\* Claims about room:kick
\* ------------------------------------------------------------------------
\* the step is a room:kick whose sender is not the current leader of the room
\* it names: the room is unknown, or the connection has no identity, or its
\* identity is not the room's leadUserId
KickByNonLeader ==
    /\ last'.op = "room:kick"
    /\ ~(last'.room \in rooms /\ roomObj[last'.room].leadUserId = last'.user)

\* C17: a room:kick sent by anyone but the room's current leader (an
\* unidentified connection and a kick naming an unknown room included) is
\* answered with exactly one 'Unauthorized' error to the sender, and leaves the
\* directory, every room's members and every room's leader as they were.
C17_NonLeaderKickRefused ==
    [][KickByNonLeader =>
          /\ out' = <<Error(last'.sock, "Unauthorized")>>
          /\ rooms' = rooms
          /\ roomObj' = roomObj]_vars

\* C17 witness: a registered member of a room, who is not its leader, has just
\* asked to kick another current member and was answered 'Unauthorized'.
C17_Witness ==
    /\ last.op = "room:kick"
    /\ last.room \in rooms
    /\ last.user # NoUser
    /\ roomObj[last.room].leadUserId # last.user
    /\ Has(roomObj[last.room].members, last.user)
    /\ Has(roomObj[last.room].members, last.target)
    /\ last.target # last.user
    /\ out = <<Error(last.sock, "Unauthorized")>>

\* ------------------------------------------------------------------------
\* Claims about room capacity at creation
\* ------------------------------------------------------------------------
\* C18: every room of the directory has 2 <= maxMembers <= MAX_ROOM_MEMBERS,
\* whatever maxMembers value its room:create request carried.
C18_MaxMembersClamped ==
    \A r \in rooms :
        /\ 2 <= roomObj[r].maxMembers
        /\ roomObj[r].maxMembers <= MAX_ROOM_MEMBERS

\* ------------------------------------------------------------------------
\* The room-creation limit: one connection, one identity, room:create requests
\* that suspend at PIN hashing, up to MaxLedRooms rooms
\* ------------------------------------------------------------------------
LedRoomIds == 1..MaxLedRooms
InitLimit == InitWith(UserIds, LedRoomIds)

NextLimit ==
    \/ \E s \in Senders : UserJoin(s, NoUser) /\ nextUser = 1
          /\ UNCHANGED restVars
    \/ \E s \in Senders, pin \in Pins :
          RoomCreate(s, TRUE, pin, 0) /\ Cardinality(pending') <= MaxRacing
          /\ UNCHANGED restVars
    \/ \E p \in pending : RoomCreateResume(p)
          /\ UNCHANGED restVars

SpecLimit == InitLimit /\ [][NextLimit]_vars

\* the rooms of the directory that identity u leads
LedBy(u) == {r \in rooms : roomObj[r].leadUserId = u}

\* C19: no step inserts a room at a moment when the identity that becomes its
\* leader already leads MAX_ROOMS_PER_USER or more rooms of the directory,
\* also when several room:create requests of that identity are suspended at
\* PIN hashing together.
C19_NoInsertAtLimit ==
    [][\A r \in rooms' \ rooms :
          Cardinality(LedBy(roomObj'[r].leadUserId)) < MAX_ROOMS_PER_USER]_vars

\* C19, the part that holds: a room:create that arrives while its sender leads
\* MAX_ROOMS_PER_USER or more rooms is answered with one error and adds nothing.
C19_ArrivalAtLimitRefused ==
    [][(last'.op = "room:create" /\ last'.user # NoUser
        /\ Cardinality(LedBy(last'.user)) >= MAX_ROOMS_PER_USER) =>
           /\ out' = <<Error(last'.sock, "You can only create up to 10 rooms")>>
           /\ rooms' = rooms /\ roomObj' = roomObj /\ pending' = pending]_vars

\* ------------------------------------------------------------------------
\* Server capacity: one connection that registers again and again, each
\* registration without a userId minting a new identity, up to MaxManyUsers,
\* and a second connection that registers under the first identity's id
\* ------------------------------------------------------------------------
ManyUserIds == 1..MaxManyUsers
InitCapacity == InitWith(ManyUserIds, RoomIds)

NextCapacity ==
    \/ \E s \in Senders : UserJoin(s, NoUser)
          /\ UNCHANGED restVars
    \/ \E s \in LifeSockets : UserJoin(s, 1)
          /\ UNCHANGED restVars
    \/ \E s \in LifeSockets : Disconnect(s)
          /\ UNCHANGED restVars

SpecCapacity == InitCapacity /\ [][NextCapacity]_vars

\* C20: the registry never holds more than MAX_TOTAL_USERS identities, and a
\* user:join that arrives while it holds MAX_TOTAL_USERS is answered with
\* exactly one error to the sender and registers nothing.
C20_CapacityEnforced ==
    [][/\ UsersSize' <= MAX_TOTAL_USERS
       /\ (last'.op = "user:join" /\ UsersSize >= MAX_TOTAL_USERS) =>
             /\ out' = <<Error(last'.sock,
                               "Server is at capacity. Please try again later.")>>
             /\ users' = users
             /\ socketToUser' = socketToUser
             /\ nextUser' = nextUser]_vars

\* C20 witness: the registry holds MAX_TOTAL_USERS identities and the user:join
\* that just arrived was answered with the capacity error.
C20_Witness ==
    /\ UsersSize = MAX_TOTAL_USERS
    /\ last.op = "user:join"
    /\ out = <<Error(last.sock, "Server is at capacity. Please try again later.")>>

\* ------------------------------------------------------------------------
\* Claims about file admission
\* ------------------------------------------------------------------------
\* the step is a room:file:start sent by a registered member of the room it names
StartByMember ==
    /\ last'.op = "room:file:start"
    /\ last'.user # NoUser
    /\ users[last'.user] = last'.sock
    /\ last'.room \in rooms
    /\ Has(roomObj[last'.room].members, last'.user)

\* the sender's file window has room for one more start: no window yet, or the
\* window has run out, or fewer than FILE_RATE_LIMIT starts were counted in it
FileWindowOpen(u) ==
    \/ userFileCounts[u].count = 0
    \/ now > userFileCounts[u].resetTime
    \/ userFileCounts[u].count < FILE_RATE_LIMIT

\* the connections recorded for the members of room r other than identity u
OthersOf(r, u) == {users[m] : m \in SeqToSet(roomObj[r].members) \ {u}} \ {NoSock}

\* C21: a room:file:start whose size exceeds 50 MiB or whose totalChunks exceeds
\* 1000 is forwarded to nobody and its sender receives an error; a start exactly
\* at both ceilings, from a member within the file rate limit, is forwarded to
\* the connections of all other members.
C21_CeilingsEnforced ==
    [][/\ (/\ last'.op = "room:file:start"
           /\ (last'.size > 50 * 1024 * 1024 \/ last'.chunks > 1000))
          => /\ Len(out') = 1
             /\ out'[1].ev = "error"
             /\ out'[1].to = {last'.sock}
       /\ (/\ StartByMember
           /\ FileWindowOpen(last'.user)
           /\ last'.size = 50 * 1024 * 1024
           /\ last'.chunks = 1000)
          => /\ Len(out') = 1
             /\ out'[1].ev = "room:file:start"
             /\ out'[1].to = OthersOf(last'.room, last'.user)]_vars

\* C21 witness: a start exactly at both ceilings has just been forwarded to the
\* connection of another member.
C21_Witness ==
    /\ last.op = "room:file:start"
    /\ last.size = 50 * 1024 * 1024
    /\ last.chunks = 1000
    /\ Len(out) = 1
    /\ out[1].ev = "room:file:start"
    /\ out[1].to # {}

\* ------------------------------------------------------------------------
\* The signaling relay: two connections, one public room, and signaling
\* messages with and without a roomId
\* ------------------------------------------------------------------------
SignalTargets == 0..MaxFewUsers
SignalRooms == 0..MaxRooms

NextSignal ==
    \/ \E s \in LifeSockets : UserJoin(s, NoUser) /\ nextUser' <= MaxFewUsers + 1
          /\ UNCHANGED restVars
    \/ \E s \in Senders : RoomCreate(s, FALSE, NoPin, 0)
          /\ UNCHANGED restVars
    \/ \E s \in LifeSockets, r \in RoomIds : RoomJoin(s, r, NoPin)
          /\ UNCHANGED restVars
    \/ \E s \in LifeSockets, r \in RoomIds : RoomLeave(s, r)
          /\ UNCHANGED restVars
    \/ \E s \in LifeSockets, t \in SignalTargets, r \in SignalRooms : WebrtcOffer(s, t, r)
          /\ UNCHANGED restVars
    \/ \E s \in LifeSockets, t \in SignalTargets, r \in SignalRooms : WebrtcAnswer(s, t, r)
          /\ UNCHANGED restVars
    \/ \E s \in LifeSockets, t \in SignalTargets, r \in SignalRooms :
          WebrtcIceCandidate(s, t, r)
          /\ UNCHANGED restVars

SpecSignal == Init /\ [][NextSignal]_vars

SignalOps == {"webrtc:offer", "webrtc:answer", "webrtc:ice-candidate"}

\* the step is a signaling message that carries a roomId of which the sender
\* and the target are not both current members
SignalOutsideRoom ==
    /\ last'.op \in SignalOps
    /\ last'.room # 0
    /\ ~(/\ last'.room \in rooms
         /\ last'.user # NoUser
         /\ Has(roomObj[last'.room].members, last'.user)
         /\ Has(roomObj[last'.room].members, last'.target))

\* C22: a signaling message that carries a roomId is forwarded to its target
\* only if both the sender and the target are current members of that room;
\* otherwise the sender receives exactly one error and nothing is forwarded.
C22_SignalNeedsMembership ==
    [][SignalOutsideRoom =>
          /\ Len(out') = 1
          /\ out'[1].ev = "error"
          /\ out'[1].to = {last'.sock}]_vars

\* C22, the part that holds: the claim for webrtc:offer alone.
C22_OfferNeedsMembership ==
    [][(SignalOutsideRoom /\ last'.op = "webrtc:offer") =>
          /\ Len(out') = 1
          /\ out'[1].ev = "error"
          /\ out'[1].to = {last'.sock}]_vars

\* ------------------------------------------------------------------------
\* Claims about the global broadcasts
\* ------------------------------------------------------------------------
\* the members of room r as the directory dir with room objects objs holds them
MembersIn(dir, objs, r) == IF r \in dir THEN SeqToSet(objs[r].members) ELSE {}

\* the step changes the membership of some room of the directory
MembershipChanged ==
    \E r \in DOMAIN roomObj :
        MembersIn(rooms, roomObj, r) # MembersIn(rooms', roomObj', r)

\* the step changes the set of registered identities
RosterChanged ==
    {u \in DOMAIN users : users[u] # NoSock} # {u \in DOMAIN users : users'[u] # NoSock}

\* the step's emits hold a broadcast of event ev to every live connection
Broadcast(ev) == \E i \in 1..Len(out') : out'[i].ev = ev /\ out'[i].to = Live'

\* C23: every step that changes a room's membership emits room:list to all
\* connections, and every step that changes the set of registered identities
\* emits user:list to all connections.
C23_ChangesAnnounced ==
    [][/\ MembershipChanged => Broadcast("room:list")
       /\ RosterChanged => Broadcast("user:list")]_vars

\* C23, the part that holds: the user:list half, and the room:list half for
\* every operation but room:join and room:kick.
C23_AnnouncedButJoinAndKick ==
    [][/\ (MembershipChanged /\ last'.op \notin {"room:join", "room:join/resume",
                                                 "room:kick"})
          => Broadcast("room:list")
       /\ RosterChanged => Broadcast("user:list")]_vars

\* ------------------------------------------------------------------------
\* Claims about unidentified connections
\* ------------------------------------------------------------------------
\* the room, message, file and signaling events of the protocol
GuardedOps ==
    {"room:create", "room:join", "room:joinByPin", "room:kick", "room:leave",
     "room:message", "room:typing", "room:message-edit", "room:message-delete",
     "room:reaction", "room:file:start", "room:file:chunk", "room:file:end",
     "webrtc:offer", "webrtc:answer", "webrtc:ice-candidate"}

\* the step is such an event from a connection that resolves to no identity
FromUnidentified == last'.op \in GuardedOps /\ last'.user = NoUser

\* C24: every room, message, file or signaling event from a connection that
\* has not completed user:join is answered with exactly one error event to
\* that connection, and leaves the identity registry, the room directory and
\* the rate windows unchanged.
C24_UnidentifiedRefused ==
    [][FromUnidentified =>
          /\ Len(out') = 1
          /\ out'[1].ev = "error"
          /\ out'[1].to = {last'.sock}
          /\ UNCHANGED <<users, socketToUser, rooms, roomObj, userMessageCounts,
                         userFileCounts>>]_vars

\* C24, the part that holds: such an event never changes the registry, the
\* directory or the rate windows, and is answered with one error unless it is
\* a room:typing, a room:leave or a signaling message.
C24_UnidentifiedChangesNothing ==
    [][FromUnidentified =>
          /\ UNCHANGED <<users, socketToUser, rooms, roomObj, userMessageCounts,
                         userFileCounts>>
          /\ last'.op \notin ({"room:typing", "room:leave"} \cup SignalOps) =>
                /\ Len(out') = 1
                /\ out'[1].ev = "error"
                /\ out'[1].to = {last'.sock}]_vars

\* ------------------------------------------------------------------------
\* The sending client (src/public/app.js): connect, loss of the connection,
\* sendMessage, and the offline queue
\* ------------------------------------------------------------------------
\* the sockets the sending client connects with, one per connection
ClientSockets == {"s1", "s2"}
\* the connection of another user
Peer == "s3"

\* a room:message the client's socket holds: its room, and whether the client
\* was disconnected when the user sent it
Queued(roomId, offline) == [roomId |-> roomId, offline |-> offline]

\* processOfflineMessages(): the emits it makes, in order
processOfflineMessages(queue, connected) == IF queue # <<>> /\ connected THEN queue ELSE <<>>

\* socket.on('connect') and socket.on('user:joined'): the client emits user:join
\* with the userId of its session, takes the userId the server answers with,
\* and processes the offline queue; the server handles the user:join
ClientConnect(s) ==
    LET sent == processOfflineMessages(offlineMessages, TRUE)
    IN /\ clientSocket = NoSock
       /\ socketToUser[s] = NoUser
       /\ UserJoin(s, clientUserId)
       /\ clientSocket' = s
       /\ clientUserId' = IF socketToUser'[s] # NoUser THEN socketToUser'[s] ELSE clientUserId
       /\ sendBuffer' = sendBuffer \o sent
       /\ offlineMessages' = IF sent # <<>> THEN <<>> ELSE offlineMessages
       /\ UNCHANGED <<inbox, currentChat, fileTransfers, notice, announced, departed, sendVars>>

\* the connection drops: the server handles the disconnect, the client's
\* socket.on('disconnect') only updates the status display
ClientLoseConnection ==
    /\ clientSocket # NoSock
    /\ Disconnect(clientSocket)
    /\ clientSocket' = NoSock
    /\ UNCHANGED <<inbox, currentChat, fileTransfers, notice, announced, departed, sendVars, clientUserId,
                   offlineMessages, sendBuffer>>

\* sendMessage(): with a chat open, socket.emit('room:message') whatever the
\* state of the connection; a socket that is not connected keeps the emit until
\* it is connected again
sendMessage ==
    /\ currentChat # NoChat
    /\ sendBuffer' = Append(sendBuffer, Queued(currentChat, clientSocket = NoSock))
    /\ UNCHANGED <<serverVars, inbox, currentChat, fileTransfers, notice, announced, departed, sendVars,
                   clientSocket, clientUserId, offlineMessages>>

\* the server receives the oldest room:message the client's socket holds
ReceiveQueued ==
    /\ clientSocket # NoSock
    /\ sendBuffer # <<>>
    /\ RoomMessage(clientSocket, Head(sendBuffer).roomId)
    /\ sendBuffer' = Tail(sendBuffer)
    /\ UNCHANGED <<inbox, currentChat, fileTransfers, notice, announced, departed, sendVars, clientSocket,
                   clientUserId, offlineMessages>>

NextOffline ==
    \/ \E s \in ClientSockets : ClientConnect(s)
    \/ ClientLoseConnection
    \/ sendMessage /\ Len(sendBuffer') <= MaxQueued
    \/ ReceiveQueued
    \/ \E r \in RoomIds : startRoomChat(r)
    \/ RoomCreate(clientSocket, FALSE, NoPin, 0) /\ clientSocket # NoSock
          /\ UNCHANGED restVars
    \/ \E r \in RoomIds : RoomJoin(clientSocket, r, NoPin) /\ clientSocket # NoSock
          /\ UNCHANGED restVars
    \/ UserJoin(Peer, NoUser) /\ socketToUser[Peer] = NoUser
          /\ UNCHANGED restVars
    \/ \E r \in RoomIds : RoomJoin(Peer, r, NoPin)
          /\ UNCHANGED restVars

SpecOffline == Init /\ [][NextOffline]_vars

\* the user sends a message while the client is disconnected
SentWhileOffline == clientSocket = NoSock /\ Len(sendBuffer') = Len(sendBuffer) + 1

\* the server handles a room:message that the user sent while the client was
\* disconnected, for a room that another registered identity is a member of
OfflineMessageArrives ==
    /\ sendBuffer # <<>>
    /\ sendBuffer' = Tail(sendBuffer)
    /\ Head(sendBuffer).offline
    /\ last'.op = "room:message"
    /\ Head(sendBuffer).roomId \in rooms
    /\ \E m \in SeqToSet(roomObj[Head(sendBuffer).roomId].members) :
          users[m] \in Live \ {last'.sock}

\* C25: a room message the user sends while the client is disconnected is put
\* in the offline queue, and when the server receives it after the reconnect
\* it is relayed as room:message to the other members of the room.
C25_OfflineQueuedAndDelivered ==
    [][/\ SentWhileOffline => Len(offlineMessages') = Len(offlineMessages) + 1
       /\ OfflineMessageArrives =>
             /\ Len(out') = 1
             /\ out'[1].ev = "room:message"
             /\ out'[1].to # {}]_vars

\* C25, its second half alone: the relay after the reconnect.
C25_OfflineDelivered ==
    [][OfflineMessageArrives =>
          /\ Len(out') = 1
          /\ out'[1].ev = "room:message"
          /\ out'[1].to # {}]_vars

\* ------------------------------------------------------------------------
\* Re-registration: three connections that may send user:join again, with or
\* without the id of a registered identity, one public room that the first
\* connection creates and relays into by each of the three ways the server
\* addresses a room (socket.to, io.to, and the members' recorded sockets);
\* every connection may send a reaction
\* ------------------------------------------------------------------------
NextReregister ==
    \/ \E s \in Sockets, userId \in 0..MaxFewUsers :
          UserJoin(s, userId) /\ nextUser' <= MaxUsers + 1
          /\ UNCHANGED restVars
    \/ \E s \in Senders : RoomCreate(s, FALSE, NoPin, 0)
          /\ UNCHANGED restVars
    \/ \E s \in Sockets \ Senders, r \in RoomIds : RoomJoin(s, r, NoPin)
          /\ UNCHANGED restVars
    \/ \E s \in Senders, r \in RoomIds : RoomTyping(s, r)
          /\ UNCHANGED restVars
    \/ \E s \in Senders, r \in RoomIds : RoomMessageEdit(s, r)
          /\ UNCHANGED restVars
    \/ \E s \in Sockets, r \in RoomIds : RoomReaction(s, r)
          /\ UNCHANGED restVars
    \/ \E s \in Senders, r \in RoomIds : RoomFileChunk(s, r)
          /\ UNCHANGED restVars

SpecReregister == Init /\ [][NextReregister]_vars

\* the events the server relays into a room
RelayedEvents == RoomScopedOps \cup {"room:update"}

\* the relayed events among the emits of the step
RelayedIn(o) == {i \in 1..Len(o) : o[i].ev \in RelayedEvents}

\* event e of the step reaches the connection recorded for every member of its
\* room, the sender's own connection aside
ReachesMembers(e) ==
    \A m \in MembersIn(rooms', roomObj', e.room) :
        (m # last'.user /\ users'[m] \in Live' \ {last'.sock}) => users'[m] \in e.to

\* event e of the step reaches only connections that resolve to a member of its room
ReachesOnlyMembers(e) ==
    \A t \in e.to : socketToUser'[t] \in MembersIn(rooms', roomObj', e.room)

\* C26: every relayed room-scoped event reaches the connection recorded in the
\* registry for every member of the room other than the sender, and reaches no
\* connection whose identity is not a member of the room, also after an
\* identity has re-registered from a new connection or a connection has sent
\* user:join a second time.
C26_RelayFollowsRegistry ==
    [][\A i \in RelayedIn(out') :
          ReachesMembers(out'[i]) /\ ReachesOnlyMembers(out'[i])]_vars

\* C27: a relayed room:message or room:typing is never delivered to the
\* connection that sent it, and a relayed room:reaction is delivered to the
\* sender's connection and to the connection recorded for every other member.
C27_SenderExclusion ==
    [][\A i \in 1..Len(out') :
          /\ out'[i].ev \in {"room:message", "room:typing"} => last'.sock \notin out'[i].to
          /\ out'[i].ev = "room:reaction" =>
                /\ last'.sock \in out'[i].to
                /\ \A m \in MembersIn(rooms, roomObj, out'[i].room) \ {last'.user} :
                      users[m] \in Live => users[m] \in out'[i].to]_vars

\* C27, the part that holds: no room:message and no room:typing comes back to
\* the connection that sent it.
C27_NoEcho ==
    [][\A i \in 1..Len(out') :
          out'[i].ev \in {"room:message", "room:typing"} => last'.sock \notin out'[i].to]_vars

\* ------------------------------------------------------------------------
\* Claims about the answer to room:create
\* ------------------------------------------------------------------------
\* the step completes a room:create request: the handler ran to its end
\* without suspending, or it resumed after the PIN was hashed
CreateAnswered ==
    \/ last'.op = "room:create" /\ pending' = pending
    \/ last'.op = "room:create/resume"

\* the emits of the step that are event ev
EventsIn(o, ev) == {i \in 1..Len(o) : o[i].ev = ev}

\* C28: each room:create request is answered with exactly one of room:created
\* or error, and the directory gains a room if and only if the answer is
\* room:created, also when the requester's connection disconnects while the
\* PIN is being hashed.
C28_OneAnswer ==
    [][CreateAnswered =>
          /\ Cardinality(EventsIn(out', "room:created"))
               + Cardinality(EventsIn(out', "error")) = 1
          /\ (rooms' # rooms) <=> (EventsIn(out', "room:created") # {})]_vars

\* C28, the part that holds: the directory gains a room exactly in the steps
\* that emit room:created, and a request whose identity is still registered
\* when the handler ends has exactly one answer.
C28_OneAnswerWhileRegistered ==
    [][CreateAnswered =>
          /\ (rooms' # rooms) <=> (EventsIn(out', "room:created") # {})
          /\ (last'.user # NoUser /\ users[last'.user] # NoSock) =>
                Cardinality(EventsIn(out', "room:created"))
                  + Cardinality(EventsIn(out', "error")) = 1]_vars

\* ------------------------------------------------------------------------
\* Claims about what a refused file start costs
\* ------------------------------------------------------------------------
\* the step is a room:file:start answered with the error of the size ceiling or
\* of the chunk-count ceiling
CeilingRefusal ==
    /\ last'.op = "room:file:start"
    /\ Len(out') = 1
    /\ out'[1].ev = "error"
    /\ out'[1].msg \in {"File size too large. Maximum 50MB allowed.",
                        "Too many chunks. Please try a smaller file."}

\* C29: a room:file:start that is refused for exceeding the size ceiling or the
\* chunk-count ceiling leaves the sender's file-start rate window unchanged: it
\* does not use up one of the file starts allowed per window.
C29_CeilingRefusalIsFree ==
    [][CeilingRefusal => userFileCounts' = userFileCounts]_vars

\* C29, as the code behaves: a start refused for a ceiling has been counted; it
\* either advanced the sender's running window by one or opened a new window
\* with a count of one, and nobody else's window moved.
C29_CeilingRefusalIsCharged ==
    [][CeilingRefusal =>
          /\ userFileCounts'[last'.user].count \in
                {1, userFileCounts[last'.user].count + 1}
          /\ userFileCounts' # userFileCounts
          /\ \A u \in DOMAIN userFileCounts \ {last'.user} :
                userFileCounts'[u] = userFileCounts[u]]_vars

\* ------------------------------------------------------------------------
\* Claims about the two directions of the identity registry
\* ------------------------------------------------------------------------
\* the identities with an entry in users
Registered == {u \in DOMAIN users : users[u] # NoSock}

\* C30: at all times each registered identity's connection reference is a live
\* connection that resolves back to that identity (a connection resolves to at
\* most one identity by construction: socketToUser holds one value per
\* connection); this is to hold also after a connection sends user:join more
\* than once and after a user:join that supplies an id held by another live
\* connection.
C30_RegistryConsistent ==
    \A u \in Registered :
        /\ users[u] \in Live
        /\ socketToUser[users[u]] = u

\* C30, one direction only: a registered identity's connection reference is a
\* live connection. It fails too: the identity a connection left behind with a
\* second user:join outlives that connection.
C30_ReferenceIsLive ==
    \A u \in Registered : users[u] \in Live

\* C30, as the code behaves: an accepted user:join binds the two Maps to each
\* other for the joining connection and the identity it is answered with, and
\* touches no other entry of either Map.
C30_JoinBindsBothWays ==
    [][(last'.op = "user:join" /\ out'[1].ev = "user:joined") =>
          LET s == last'.sock
              u == out'[1].from
          IN /\ socketToUser'[s] = u
             /\ users'[u] = s
             /\ \A t \in Sockets \ {s} : socketToUser'[t] = socketToUser[t]
             /\ \A v \in DOMAIN users \ {u} : users'[v] = users[v]]_vars

\* ------------------------------------------------------------------------
\* Claims about signaling to an identity that is not registered
\* ------------------------------------------------------------------------
\* the step is a signaling message whose target has no entry in users
SignalToUnknown ==
    /\ last'.op \in SignalOps
    /\ ~TargetKnown(last'.target)

\* C31: a webrtc:offer, webrtc:answer or webrtc:ice-candidate whose target
\* identity is not in the identity registry is dropped: nothing is forwarded
\* and no error event is sent to the sender.
C31_UnknownTargetDropped ==
    [][SignalToUnknown => out' = <<>>]_vars

\* C31, as the code behaves: nothing is forwarded, and the sender is answered
\* with the error 'Target user not found'.
C31_UnknownTargetAnswered ==
    [][SignalToUnknown =>
          out' = <<Error(last'.sock, "Target user not found")>>]_vars

\* ------------------------------------------------------------------------
\* Claims about where an error goes
\* ------------------------------------------------------------------------
\* the connections other than the one whose operation the step handles
Bystanders == Sockets \ {last'.sock}

\* C32: an error event is sent only to the connection that issued the
\* operation, and an operation that is answered with an error causes no event
\* to be sent to any other connection.
C32_ErrorsStayLocal ==
    [][EventsIn(out', "error") # {} =>
          \A i \in 1..Len(out') : out'[i].to \cap Bystanders = {}]_vars

\* C32, the part that holds: every error event of a step is addressed to the
\* connection whose operation the step handles, and to nobody else.
C32_ErrorOnlyToOrigin ==
    [][\A i \in EventsIn(out', "error") : out'[i].to \subseteq {last'.sock}]_vars

\* ------------------------------------------------------------------------
\* Departures: three connections that register, up to two public rooms, and
\* every way an identity goes out of a room without being put out: room:leave
\* and disconnect
\* ------------------------------------------------------------------------
DepartRoomIds == 1..MaxDepartRooms
InitDeparture == InitWith(UserIds, DepartRoomIds)

NextDeparture ==
    \/ \E s \in Sockets : UserJoin(s, NoUser) /\ nextUser' <= MaxUsers + 1
          /\ UNCHANGED restVars
    \/ \E s \in Sockets : RoomCreate(s, FALSE, NoPin, 0)
          /\ UNCHANGED restVars
    \/ \E s \in Sockets, r \in DepartRoomIds : RoomJoin(s, r, NoPin)
          /\ UNCHANGED restVars
    \/ \E s \in Sockets, r \in DepartRoomIds : RoomLeave(s, r)
          /\ UNCHANGED restVars
    \/ \E s \in Sockets : Disconnect(s)
          /\ UNCHANGED restVars

SpecDeparture == InitDeparture /\ [][NextDeparture]_vars

\* ------------------------------------------------------------------------
\* Claims about the order of the disconnect handler
\* ------------------------------------------------------------------------
\* the step is the disconnect of a connection that resolves to an identity
IdentifiedDisconnect == last'.op = "disconnect" /\ last'.user # NoUser

\* the rooms that held identity u before the step and hold somebody else too
SurvivingRoomsOf(u) ==
    {r \in rooms : Has(roomObj[r].members, u) /\ Len(roomObj[r].members) > 1}

\* the identities a user:list event lists
Listed(e) == {e.snaps[i].id : i \in 1..Len(e.snaps)}

\* the emits of the step, for the disconnect of identity u: one room:update for
\* each room that u was in and that lives on, its snapshot without u and none
\* of them sent to the closing connection; then one user:list without u; no
\* room:update after it; and afterwards u is in no room and not registered
DisconnectOrdered(u) ==
    LET n == Cardinality(SurvivingRoomsOf(u))
    IN /\ Len(out') >= n + 1
       /\ {out'[i].room : i \in 1..n} = SurvivingRoomsOf(u)
       /\ \A i \in 1..n :
             /\ out'[i].ev = "room:update"
             /\ last'.sock \notin out'[i].to
             /\ ~Has(out'[i].snaps[1].members, u)
       /\ out'[n + 1].ev = "user:list"
       /\ u \notin Listed(out'[n + 1])
       /\ \A i \in (n + 2)..Len(out') : out'[i].ev \notin {"room:update", "user:list"}
       /\ users'[u] = NoSock
       /\ \A r \in rooms' : ~Has(roomObj'[r].members, u)

\* the live connections that the registry records for the members of room r
\* after the step
RemainingConnections(r) ==
    ({users'[m] : m \in SeqToSet(roomObj'[r].members)} \ {NoSock}) \ closed'

Before(q, u, v) ==
    \E i, j \in 1..Len(q) : i < j /\ q[i] = u /\ q[j] = v

\* the step keeps the members of room r in the order in which they were added:
\* two members that stay keep their order, and a member that the step adds
\* comes after every member that was there
KeepsInsertionOrder(r) ==
    LET old == roomObj[r].members
        new == roomObj'[r].members
    IN \A u, v \in SeqToSet(new) :
          /\ (Has(old, u) /\ Has(old, v) /\ Before(old, u, v)) => Before(new, u, v)
          /\ (Has(old, u) /\ ~Has(old, v)) => Before(new, u, v)

\* the rooms whose leader the step removes by room:leave or disconnect while
\* other members remain
LeaderGone ==
    {r \in rooms : /\ last'.op \in {"room:leave", "disconnect"}
                   /\ last'.user # NoUser
                   /\ last'.op = "room:leave" => last'.room = r
                   /\ roomObj[r].leadUserId = last'.user
                   /\ Has(roomObj[r].members, last'.user)
                   /\ Len(roomObj[r].members) > 1}

\* C34: when the leader is removed from a room by room:leave or disconnect and
\* members remain, the new leader is the remaining member that was added to
\* the room earliest: it stands before every other remaining member in the
\* member set, and the member set keeps insertion order in every step.
C34_EarliestMemberLeads ==
    [][/\ \A r \in rooms \cap rooms' : KeepsInsertionOrder(r)
       /\ \A r \in LeaderGone :
             /\ r \in rooms'
             /\ roomObj'[r].leadUserId # last'.user
             /\ Has(roomObj'[r].members, roomObj'[r].leadUserId)
             /\ \A m \in SeqToSet(roomObj'[r].members) \ {roomObj'[r].leadUserId} :
                   Before(roomObj[r].members, roomObj'[r].leadUserId, m)]_vars

\* the leader has left a room of three, and of the two that remain the one with
\* the larger id was added first and leads
C34_Witness ==
    /\ last.op = "room:leave"
    /\ last.prior = last.user
    /\ last.room \in rooms
    /\ Len(roomObj[last.room].members) = 2
    /\ roomObj[last.room].members[1] > roomObj[last.room].members[2]
    /\ roomObj[last.room].leadUserId = roomObj[last.room].members[1]

\* ------------------------------------------------------------------------
\* Rate windows of two identities: two connections in one public room, both
\* sending messages and the second one announcing files, while time passes
\* ------------------------------------------------------------------------
NextWindows ==
    \/ \E s \in LifeSockets : socketToUser[s] = NoUser /\ UserJoin(s, NoUser)
          /\ UNCHANGED restVars
    \/ \E s \in Senders : RoomCreate(s, FALSE, NoPin, 0)
          /\ UNCHANGED restVars
    \/ \E s \in LifeSockets, r \in RoomIds : RoomJoin(s, r, NoPin)
          /\ UNCHANGED restVars
    \/ \E s \in LifeSockets, r \in RoomIds : RoomMessage(s, r)
          /\ UNCHANGED restVars
    \/ \E s \in LifeSockets \ Senders, r \in RoomIds :
          RoomFileStart(s, r, MAX_FILE_SIZE, MAX_CHUNKS)
          /\ UNCHANGED restVars
    \/ Tick
          /\ UNCHANGED restVars

SpecWindows == Init /\ [][NextWindows]_vars

\* the windows of Map counts other than the one of identity u are the same
\* before and after, and so is the answer a check of their owners would get
OthersUntouched(before, after, u, limit) ==
    \A v \in DOMAIN before \ {u} :
        /\ after[v] = before[v]
        /\ checkRateLimit(after, v, limit, now').allowed
             = checkRateLimit(before, v, limit, now').allowed

\* C35: a rate check for one identity and one event class changes only that
\* identity's window for that class: a room:message never changes a file-start
\* window, a room:file:start never changes a message window, neither changes
\* the window of another identity or the answer that identity's next check
\* would get, and no other event changes a window at all.
C35_WindowsIndependent ==
    [][/\ last'.op = "room:message" =>
             /\ userFileCounts' = userFileCounts
             /\ OthersUntouched(userMessageCounts, userMessageCounts', last'.user,
                                MESSAGE_RATE_LIMIT)
       /\ last'.op = "room:file:start" =>
             /\ userMessageCounts' = userMessageCounts
             /\ OthersUntouched(userFileCounts, userFileCounts', last'.user,
                                FILE_RATE_LIMIT)
       /\ last'.op \notin {"room:message", "room:file:start"} =>
             /\ userMessageCounts' = userMessageCounts
             /\ userFileCounts' = userFileCounts]_vars

\* the second identity has announced a file and sent a message in windows of
\* its own while the first identity has used up its message window
C35_Witness ==
    /\ \E u, v \in Registered :
          /\ u # v
          /\ userMessageCounts[u].count = MESSAGE_RATE_LIMIT
          /\ userMessageCounts[v].count \in 1..(MESSAGE_RATE_LIMIT - 1)
          /\ userFileCounts[v].count > 0
          /\ userFileCounts[u].count = 0
          /\ userMessageCounts[v].resetTime # userMessageCounts[u].resetTime

\* ------------------------------------------------------------------------
\* Claims about a disconnect after the identity has moved to a new connection
\* ------------------------------------------------------------------------
\* identity u is registered, in the registry and in every room it was in, after
\* the step as before
Kept(u) ==
    /\ users'[u] = users[u]
    /\ \A r \in rooms : Has(roomObj[r].members, u) =>
          r \in rooms' /\ Has(roomObj'[r].members, u)

\* C36: the disconnect of one connection never removes from the registry, or
\* from any room, an identity whose current connection reference is a
\* different connection that is still live.
C36_DisconnectSparesMovedIdentity ==
    [][last'.op = "disconnect" =>
          \A u \in Registered :
              (users[u] # last'.sock /\ users[u] \in Live) => Kept(u)]_vars

\* C36, as the code behaves: a disconnect removes the identity that the closing
\* connection resolves to, whatever connection the registry records for it,
\* and keeps every other identity.
C36_DisconnectRemovesResolved ==
    [][last'.op = "disconnect" =>
          /\ \A u \in Registered \ {last'.user} : Kept(u)
          /\ last'.user # NoUser =>
                /\ users'[last'.user] = NoSock
                /\ \A r \in rooms' : ~Has(roomObj'[r].members, last'.user)]_vars

\* ------------------------------------------------------------------------
\* Claims about what room:joined tells its receiver
\* ------------------------------------------------------------------------
\* the room:joined events of the step that reach a connection
JoinedSent == {i \in EventsIn(out', "room:joined") : out'[i].to # {}}

\* C37: whenever the server sends room:joined for room R to a connection, R is
\* in the directory at that moment and the connection's identity is registered
\* and in R's member set, also when R's last member left, or the joiner
\* disconnected, while the PIN was being verified.
C37_JoinedIsTrue ==
    [][\A i \in JoinedSent :
          LET r == out'[i].room
          IN /\ r \in rooms'
             /\ \A s \in out'[i].to :
                   /\ socketToUser'[s] \in Registered'
                   /\ Has(roomObj'[r].members, socketToUser'[s])]_vars

\* C37, the part that holds: room:joined is sent to the joining connection
\* only, never to a connection that has disconnected, and if the room is in the
\* directory at that moment, the identity that the connection resolved to when
\* its request arrived is in the room's member set.
C37_JoinedIfRoomLives ==
    [][\A i \in JoinedSent :
          LET r == out'[i].room
          IN /\ out'[i].to = {last'.sock}
             /\ last'.sock \notin closed'
             /\ r \in rooms' => Has(roomObj'[r].members, last'.user)]_vars

\* ------------------------------------------------------------------------
\* Departed identities: three connections that register as one of two
\* identities, also with the id of a registered identity, one public room that the first connection creates,
\* the others join and leave, and from which its leader kicks; events relayed
\* into the room by each of the three ways the server addresses a room. The
\* run keeps the history of who left or was kicked and has not come back.
\* ------------------------------------------------------------------------
\* the <<identity, room>> pairs of the directory, for a state's rooms and objects
Memberships(dir, objs) ==
    {<<u, r>> \in UserIds \X RoomIds : r \in dir /\ Has(objs[r].members, u)}

\* the history after the step: the memberships that a room:leave or a room:kick
\* ends are added, the memberships that exist after the step are taken out
TrackDepartures ==
    departed' =
        (departed \cup
           (IF last'.op \in {"room:leave", "room:kick"}
            THEN Memberships(rooms, roomObj) \ Memberships(rooms', roomObj')
            ELSE {}))
        \ Memberships(rooms', roomObj')

NextEviction ==
    \/ \E s \in Sockets, userId \in 0..MaxFewUsers :
          UserJoin(s, userId) /\ nextUser' <= MaxFewUsers + 1
          /\ UNCHANGED <<clientVars, sendVars>> /\ TrackDepartures
    \/ \E s \in Senders : RoomCreate(s, FALSE, NoPin, 0)
          /\ UNCHANGED <<clientVars, sendVars>> /\ TrackDepartures
    \/ \E s \in Sockets \ Senders, r \in RoomIds : RoomJoin(s, r, NoPin)
          /\ UNCHANGED <<clientVars, sendVars>> /\ TrackDepartures
    \/ \E s \in Sockets \ Senders, r \in RoomIds : RoomLeave(s, r)
          /\ UNCHANGED <<clientVars, sendVars>> /\ TrackDepartures
    \/ \E s \in Senders, r \in RoomIds, t \in 1..MaxFewUsers : RoomKick(s, r, t)
          /\ UNCHANGED <<clientVars, sendVars>> /\ TrackDepartures
    \/ \E s \in Senders, r \in RoomIds : RoomTyping(s, r)
          /\ UNCHANGED <<clientVars, sendVars>> /\ TrackDepartures
    \/ \E s \in Senders, r \in RoomIds : RoomReaction(s, r)
          /\ UNCHANGED <<clientVars, sendVars>> /\ TrackDepartures
    \/ \E s \in Senders, r \in RoomIds : RoomFileChunk(s, r)
          /\ UNCHANGED <<clientVars, sendVars>> /\ TrackDepartures

SpecEviction == Init /\ [][NextEviction]_vars

\* C38: after an identity leaves a room by room:leave or is removed from it by
\* room:kick, no connection that resolves to that identity receives any later
\* room-scoped event of that room (message, edit, delete, reaction, typing, file
\* phase, room:update) unless the identity joins the room again.
C38_DepartedHearNothing ==
    [][\A i \in RelayedIn(out') : \A t \in out'[i].to :
          <<socketToUser'[t], out'[i].room>> \notin departed \cap departed']_vars

\* C38, as the code behaves: a room:leave takes the leaving connection out of
\* the room's socket.io room, and a room:kick takes out the one connection that
\* the registry records for the target; other connections that resolve to the
\* departing identity stay in it.
C38_DepartureUnsubscribesRecorded ==
    [][/\ (last'.op = "room:leave" /\ <<last'.user, last'.room>> \in departed'
             /\ <<last'.user, last'.room>> \notin departed) =>
             last'.room \notin joined'[last'.sock]
       /\ (last'.op = "room:kick" /\ <<last'.target, last'.room>> \in departed'
             /\ <<last'.target, last'.room>> \notin departed
             /\ users[last'.target] # NoSock) =>
             last'.room \notin joined'[users[last'.target]]]_vars

\* ------------------------------------------------------------------------
\* Claims about the room snapshots the server emits
\* ------------------------------------------------------------------------
\* the room snapshots in the events of the last step that reach a connection
Snapshots ==
    UNION {SeqToSet(out[i].snaps) :
              i \in {k \in 1..Len(out) : out[k].ev # "user:list" /\ out[k].to # {}}}

\* C39: in every room snapshot the server emits, memberCount equals the number
\* of entries in the snapshot's members list, and every listed member is an
\* identity present in the registry.
C39_SnapshotConsistent ==
    \A snap \in Snapshots :
        /\ snap.memberCount = Len(snap.members)
        /\ \A u \in SeqToSet(snap.members) : u \in Registered

\* C39, the part that holds: every listed member is an identity present in the
\* registry, and memberCount is never less than the number of listed members.
C39_ListedAreRegistered ==
    \A snap \in Snapshots :
        /\ snap.memberCount >= Len(snap.members)
        /\ \A u \in SeqToSet(snap.members) : u \in Registered

\* ------------------------------------------------------------------------
\* Files by id: the sending client's sendRoomFile (src/public/app.js), the
\* server's relay of the three phases, and the receiving client's Map of
\* transfers, keyed by fileId. The sending client sends one file after the
\* other, each under a new fileId, and never looks at the server's answer.
\* ------------------------------------------------------------------------
FileIds == 1..MaxFiles
\* totalChunks a sendRoomFile call computes: a small file, and one beyond the ceiling
SentTotals == {MaxSentChunks, MAX_CHUNKS + 1}
\* the base64 payload of the chunks sent
SentChunk == "QUJD"

\* the client's Map of transfers starts empty: no fileId has an entry
InitFiles ==
    /\ InitServer(UserIds, RoomIds)
    /\ InitClient
    /\ fileTransfers = [f \in FileIds |-> NoTransfer]

\* the errors with which room:file:start refuses a member's file
StartRefusals ==
    {"File transfer rate limit exceeded. Please wait before sending another file.",
     "File size too large. Maximum 50MB allowed.",
     "Too many chunks. Please try a smaller file."}

\* a file event with the fileId that the server passes on as it came
FileEventOf(fileId, e) == e @@ [fileId |-> fileId]

\* the chunks of the running call that the run follows
ChunksToSend ==
    IF sendingFile.totalChunks < MaxSentChunks
    THEN sendingFile.totalChunks ELSE MaxSentChunks

\* sendRoomFile, lines 1328-1356: a new fileId, and room:file:start
sendRoomFileStart(s, roomId, fileSize, totalChunks) ==
    LET fileId == sendingFile.fileId + 1
    IN /\ ~sendingFile.running
       /\ fileId \in FileIds
       /\ RoomFileStart(s, roomId, fileSize, totalChunks)
       /\ refused' = IF \E i \in EventsIn(out', "error") : out'[i].msg \in StartRefusals
                     THEN refused \cup {fileId} ELSE refused
       /\ inbox' = IF Delivered(out', "room:file:start")
                   THEN Append(inbox,
                               FileEventOf(fileId,
                                           FileEvent("room:file:start", roomId,
                                                     socketToUser[s], totalChunks, 0, "")))
                   ELSE inbox
       /\ sendingFile' = [fileId |-> fileId, roomId |-> roomId,
                          totalChunks |-> totalChunks, sentChunks |-> 0, running |-> TRUE]
       /\ UNCHANGED <<currentChat, fileTransfers, notice, announced, departed, queueVars>>

\* sendRoomFile, lines 1358-1379: one pass of the loop, whatever the server
\* answered to the start
sendRoomFileChunk(s) ==
    /\ sendingFile.running
    /\ sendingFile.sentChunks < ChunksToSend
    /\ RoomFileChunk(s, sendingFile.roomId)
    /\ inbox' = IF Delivered(out', "room:file:chunk")
                THEN Append(inbox,
                            FileEventOf(sendingFile.fileId,
                                        FileEvent("room:file:chunk", sendingFile.roomId,
                                                  socketToUser[s], 0,
                                                  sendingFile.sentChunks, SentChunk)))
                ELSE inbox
    /\ sendingFile' = [sendingFile EXCEPT !.sentChunks = @ + 1]
    /\ UNCHANGED <<currentChat, fileTransfers, notice, announced, departed, queueVars,
                   refused>>

\* sendRoomFile, lines 1381-1384: room:file:end after the loop
sendRoomFileEnd(s) ==
    /\ sendingFile.running
    /\ sendingFile.sentChunks = ChunksToSend
    /\ RoomFileEnd(s, sendingFile.roomId)
    /\ inbox' = IF Delivered(out', "room:file:end")
                THEN Append(inbox,
                            FileEventOf(sendingFile.fileId,
                                        FileEvent("room:file:end", sendingFile.roomId,
                                                  socketToUser[s], 0, 0, "")))
                ELSE inbox
    /\ sendingFile' = [sendingFile EXCEPT !.running = FALSE]
    /\ UNCHANGED <<currentChat, fileTransfers, notice, announced, departed, queueVars,
                   refused>>

\* the chunk is kept whether or not the Map has the transfer
RecordChunkUntracked(transfer, i, d) ==
    [transfer EXCEPT !.chunks = ChunkSet(@, i, d)]
\* lines 1451-1453: if (transfer) transfer.chunks.set(chunkIndex, chunk)
RecordChunk(transfer, i, d) ==
    IF transfer.tracked THEN [transfer EXCEPT !.chunks = ChunkSet(@, i, d)] ELSE transfer

\* handleRoomFileTransferStart on the Map: this.fileTransfers.set(data.fileId, ...)
handleStartOfFile ==
    /\ inbox # <<>>
    /\ Head(inbox).ev = "room:file:start"
    /\ inbox' = Tail(inbox)
    /\ fileTransfers' =
          IF ClientAccepts(Head(inbox))
          THEN [fileTransfers EXCEPT ![Head(inbox).fileId] =
                   [tracked |-> TRUE, totalChunks |-> Head(inbox).totalChunks,
                    chunks |-> <<>>]]
          ELSE fileTransfers
    /\ notice' = ""
    /\ UNCHANGED <<serverVars, currentChat, announced, departed, sendVars, queueVars>>

\* handleRoomFileTransferChunk on the Map: this.fileTransfers.get(data.fileId)
handleChunkOfFile ==
    /\ inbox # <<>>
    /\ Head(inbox).ev = "room:file:chunk"
    /\ inbox' = Tail(inbox)
    /\ fileTransfers' =
          IF ClientAccepts(Head(inbox))
          THEN [fileTransfers EXCEPT ![Head(inbox).fileId] =
                   RecordChunk(@, Head(inbox).chunkIndex, Head(inbox).chunk)]
          ELSE fileTransfers
    /\ notice' = ""
    /\ UNCHANGED <<serverVars, currentChat, announced, departed, sendVars, queueVars>>

\* handleRoomFileTransferEnd on the Map
handleEndOfFile ==
    LET transfer == fileTransfers[Head(inbox).fileId]
    IN /\ inbox # <<>>
       /\ Head(inbox).ev = "room:file:end"
       /\ inbox' = Tail(inbox)
       /\ notice' = IF ~(ClientAccepts(Head(inbox)) /\ transfer.tracked)
                    THEN ""
                    ELSE IF Cardinality(DOMAIN transfer.chunks) = transfer.totalChunks
                    THEN assembleRoomFile(transfer)
                    ELSE "incomplete"
       /\ UNCHANGED <<serverVars, currentChat, fileTransfers, announced, departed, sendVars,
                      queueVars>>

NextFiles ==
    \/ \E s \in LifeSockets : socketToUser[s] = NoUser /\ UserJoin(s, NoUser)
          /\ UNCHANGED restVars
    \/ \E s \in Senders : RoomCreate(s, FALSE, NoPin, 0)
          /\ UNCHANGED restVars
    \/ \E s \in LifeSockets, r \in RoomIds : RoomJoin(s, r, NoPin)
          /\ UNCHANGED restVars
    \/ \E s \in Senders, r \in RoomIds, size \in FileSizes, n \in SentTotals :
          sendRoomFileStart(s, r, size, n) /\ Len(inbox') <= MaxInbox
    \/ \E s \in Senders : sendRoomFileChunk(s) /\ Len(inbox') <= MaxInbox
    \/ \E s \in Senders : sendRoomFileEnd(s) /\ Len(inbox') <= MaxInbox
    \/ handleStartOfFile
    \/ handleChunkOfFile
    \/ handleEndOfFile
    \/ \E r \in RoomIds : currentChat = NoChat /\ startRoomChat(r)

SpecFiles == InitFiles /\ [][NextFiles]_vars

\* the step is the receiving client's handling of an event of file f
Handles(ev, f) ==
    /\ inbox # <<>>
    /\ Head(inbox).ev = ev
    /\ Head(inbox).fileId = f
    /\ inbox' = Tail(inbox)

\* C40: the receiving client records no chunk of, and does not assemble, a file
\* whose room:file:start the server refused for the rate limit, the size
\* ceiling or the chunk-count ceiling, although the sending client goes on to
\* emit that file's chunks and end and the server relays them: the client's Map
\* never has an entry for such a file, and the end of such a file ends with no
\* notification.
C40_RefusedFileNotReceived ==
    [][\A f \in refused' :
          /\ fileTransfers'[f] = NoTransfer
          /\ Handles("room:file:end", f) => notice' = ""]_vars

\* the receiving client, which tracks an earlier file and has had the chat open
\* since, has handled a relayed chunk of a refused file
C40_Witness ==
    /\ sendingFile.fileId \in refused
    /\ \E g \in FileIds : fileTransfers[g].tracked
    /\ currentChat # NoChat
    /\ last.op = "room:file:chunk"
    /\ Delivered(out, "room:file:chunk")
    /\ inbox = <<>>

====
